---- MODULE Spec2Model ----
(***************************************************************************)
(* Model of the kmdnd encounter engine (kmdnd_server): the document store  *)
(* (encounters, operations, characters), the wall clock whose reading is   *)
(* the modified_at lock token, and the request handlers.  Every handler is *)
(* an async function; each awaited store call is one atomic step, so the   *)
(* handlers of concurrent requests interleave between store calls.         *)
(***************************************************************************)
EXTENDS Integers, Sequences, FiniteSets, TLC

\* ------------------------------------------------------------------------
\* Bounds
\* ------------------------------------------------------------------------
\* last reading of the wall clock, in milliseconds (bson::DateTime precision)
MaxTime == 1
\* number of requests the clients send in one behaviour
MaxRequests == 4
\* number of those requests still to come once the first turn has begun
MaxTurnRequests == 3
\* number of those requests still to come once a Fireball is stored
MaxSpellRequests == 2
\* number of requests the player and the game master send while the player
\* answers an attack to its end
MaxAnswerRequests == 6

\* concurrent requests in flight
Procs == {"p1", "p2"}

\* the two characters of the seeded campaign
CharacterIds == {"c1", "c2"}

\* campaign ids the model draws (CampaignId::new() and the ids clients send)
CampaignIds == {"k1", "k2", "k3"}

\* names a create campaign request may carry
CampaignNames == {"Blue Man Group", "The Green Bean Bunch"}

\* the campaign the store holds from the start
SeedCampaigns ==
    <<[id |-> "k1", name |-> "The Green Bean Bunch", created_at |-> 0,
       modified_at |-> 0]>>

\* faces of the d20 the model draws (gen_range(1..=20))
DieFaces == {1, 20}

\* rosters a create request may carry
RosterInputs == {<<"c1", "c2">>, <<"c2">>, <<"c1", "c3">>}

\* Option<T>: None is the empty sequence, Some(v) the one-element sequence
None == <<>>
Some(v) == <<v>>

\* ------------------------------------------------------------------------
\* State
\* ------------------------------------------------------------------------
VARIABLES now, campaigns, encounters, operations, characters, procs, requests,
          interaction_ids

vars == <<now, campaigns, encounters, operations, characters, procs, requests,
         interaction_ids>>

\* hit points of the seeded characters (current and maximum)
SeedHitPoints == 10

\* character statistics that no handler changes
Stats(c) ==
    IF c = "c1" THEN [initiative |-> 0, speed |-> 30, armor_class |-> 14]
    ELSE [initiative |-> 0, speed |-> 30, armor_class |-> 12]

Initiative == [type |-> "Initiative"]
Turn(r, c) == [type |-> "Turn", round |-> r, character_id |-> c]
Finished == [type |-> "Finished"]

Legal == [type |-> "Legal"]
IllegalPending(v) == [type |-> "IllegalPending", violations |-> v]
IllegalApproved(v) == [type |-> "IllegalApproved", violations |-> v]

\* the outcome a handler returns to its caller
NoResult ==
    [status |-> "none", character_ids |-> <<>>, violations |-> <<>>,
     campaign |-> None, campaign_id |-> "none"]
Ok == [NoResult EXCEPT !.status = "Ok"]
Err(name) == [NoResult EXCEPT !.status = name]

\* a request slot with no request in it
IdleProc ==
    [pc |-> "idle", kind |-> "none", character_id |-> "none",
     character_ids |-> <<>>, encounter |-> None, initiative_rolls |-> <<>>,
     created_at |-> 0, position |-> None, ignore_violations |-> FALSE,
     target_character_id |-> "none", character |-> None, feet |-> 0,
     operation_id |-> 0, operation |-> None, interaction_id |-> 0,
     index |-> 0, value |-> 0, new_hit_points |-> 0, new_interactions |-> <<>>,
     attempts |-> 0, name |-> "none", target |-> [type |-> "None"],
     members |-> <<>>, campaign_id |-> "none", result |-> NoResult]

\* the handler returns: its locals are dropped, the outcome stays with the
\* client (a begin request also keeps the copy of the encounter it fetched;
\* the client of an interaction result that met a conflict keeps what it sent,
\* and so does the client that asked for a campaign)
Return(pr, result) ==
    LET returned ==
            [IdleProc EXCEPT !.pc = "done", !.kind = pr.kind, !.result = result,
                !.encounter = IF pr.kind = "begin" THEN pr.encounter ELSE None,
                !.campaign_id = pr.campaign_id]
    IN  IF pr.kind = "interaction" /\ result.status = "ConcurrentModificationDetected"
        THEN [returned EXCEPT !.operation_id = pr.operation_id,
                              !.interaction_id = pr.interaction_id,
                              !.character_id = pr.character_id,
                              !.value = pr.value,
                              !.attempts = pr.attempts]
        ELSE returned

\* the slot can take the next request of the clients
Free(p) == procs[p].pc \in {"idle", "done"} /\ requests < MaxRequests

\* ------------------------------------------------------------------------
\* Sequence helpers
\* ------------------------------------------------------------------------
Range(s) == {s[i] : i \in DOMAIN s}

Reverse(s) == [i \in 1..Len(s) |-> s[Len(s) + 1 - i]]

RECURSIVE InsertByKey(_, _)
\* insert x after every element whose key is <= its own (stable)
InsertByKey(s, x) ==
    IF s = <<>> THEN <<x>>
    ELSE IF Head(s).key <= x.key THEN <<Head(s)>> \o InsertByKey(Tail(s), x)
    ELSE <<x>> \o s

RECURSIVE SortByKey(_)
\* Vec::sort_by_key over (key, value) pairs: stable, ascending
SortByKey(s) ==
    IF s = <<>> THEN <<>>
    ELSE InsertByKey(SortByKey(SubSeq(s, 1, Len(s) - 1)), s[Len(s)])

Values(s) == [i \in 1..Len(s) |-> s[i].value]

Max(S) == CHOOSE x \in S : \A y \in S : y <= x

\* ------------------------------------------------------------------------
\* Encounter store (encounter/db.rs)
\* ------------------------------------------------------------------------
EncounterCopy(i) == [id |-> i] @@ encounters[i]

\* find_one sorted by created_at descending, then the Finished filter:
\* the newest encounter, whichever of equally new ones the store yields
fetch_current_encounter_by_campaign ==
    IF encounters = <<>> THEN {None}
    ELSE LET newest == Max({encounters[i].created_at : i \in DOMAIN encounters})
         IN  {IF encounters[i].state # Finished THEN Some(EncounterCopy(i)) ELSE None :
                 i \in {j \in DOMAIN encounters : encounters[j].created_at = newest}}

\* an update filtered on the id alone
update_encounter_state_by_id(encs, encounter, state, t) ==
    [matched |-> TRUE,
     encounters |-> [encs EXCEPT ![encounter.id].state = state,
                                 ![encounter.id].modified_at = t]]

update_encounter_state(encs, encounter, state, t) ==
    IF encs[encounter.id].modified_at = encounter.modified_at
    THEN [matched |-> TRUE,
          encounters |-> [encs EXCEPT ![encounter.id].state = state,
                                      ![encounter.id].modified_at = t]]
    ELSE [matched |-> FALSE, encounters |-> encs]

update_encounter_state_and_characters(encs, encounter, state, character_ids, t) ==
    IF encs[encounter.id].modified_at = encounter.modified_at
    THEN [matched |-> TRUE,
          encounters |-> [encs EXCEPT ![encounter.id].state = state,
                                      ![encounter.id].character_ids = character_ids,
                                      ![encounter.id].modified_at = t]]
    ELSE [matched |-> FALSE, encounters |-> encs]

\* ------------------------------------------------------------------------
\* Operation store (operation/db.rs)
\* ------------------------------------------------------------------------
OperationCopy(i) == [id |-> i] @@ operations[i]

\* the stored operations of an encounter, newest first
fetch_operations_by_encounter(encounter_id) ==
    LET present == SelectSeq([i \in DOMAIN operations |-> OperationCopy(i)],
                             LAMBDA o : o.present /\ o.encounter_id = encounter_id)
        keyed == [i \in DOMAIN present |->
                     [key |-> present[i].created_at, value |-> present[i]]]
    IN  Reverse(Values(SortByKey(keyed)))

IsInitiativeRoll(o) ==
    o.operation_type.type = "Roll" /\ o.operation_type.roll = "Initiative"

\* the stored operation with the given id, if it has not been deleted
fetch_operation_by_id(operation_id) ==
    IF operation_id \in DOMAIN operations /\ operations[operation_id].present
    THEN Some(OperationCopy(operation_id))
    ELSE None

\* the stored operations recorded under Turn{round, character_id} of an
\* encounter, newest first
fetch_operations_by_turn(encounter_id, round, character_id) ==
    LET present == SelectSeq([i \in DOMAIN operations |-> OperationCopy(i)],
                             LAMBDA o : /\ o.present
                                        /\ o.encounter_id = encounter_id
                                        /\ o.encounter_state = Turn(round, character_id))
        keyed == [i \in DOMAIN present |->
                     [key |-> present[i].created_at, value |-> present[i]]]
    IN  Reverse(Values(SortByKey(keyed)))

\* update_one filtered on {_id, modified_at}: matches a stored, undeleted
\* operation carrying the token of the given copy
OperationMatches(ops, operation) ==
    /\ ops[operation.id].present
    /\ ops[operation.id].modified_at = operation.modified_at

\* an update that stamps the operation and leaves the result out
update_operation_interaction_stamp(ops, operation, interaction_index, interaction_result, t) ==
    IF OperationMatches(ops, operation)
    THEN [matched |-> TRUE,
          operations |-> [ops EXCEPT ![operation.id].modified_at = t],
          operation |-> [operation EXCEPT !.modified_at = t]]
    ELSE [matched |-> FALSE, operations |-> ops, operation |-> operation]

update_operation_interaction_result(ops, operation, interaction_index, interaction_result, t) ==
    IF OperationMatches(ops, operation)
    THEN [matched |-> TRUE,
          operations |-> [ops EXCEPT
              ![operation.id].interactions[interaction_index].result =
                  Some(interaction_result),
              ![operation.id].modified_at = t],
          operation |-> [operation EXCEPT
              !.interactions[interaction_index].result = Some(interaction_result),
              !.modified_at = t]]
    ELSE [matched |-> FALSE, operations |-> ops, operation |-> operation]

\* an update that stores the new interactions in place of the list
update_operation_set_interactions(ops, operation, interactions, t) ==
    IF OperationMatches(ops, operation)
    THEN [matched |-> TRUE,
          operations |-> [ops EXCEPT
              ![operation.id].interactions = interactions,
              ![operation.id].modified_at = t],
          operation |-> [operation EXCEPT
              !.interactions = interactions, !.modified_at = t]]
    ELSE [matched |-> FALSE, operations |-> ops, operation |-> operation]

update_operation_push_interactions(ops, operation, interactions, t) ==
    IF OperationMatches(ops, operation)
    THEN [matched |-> TRUE,
          operations |-> [ops EXCEPT
              ![operation.id].interactions = @ \o interactions,
              ![operation.id].modified_at = t],
          operation |-> [operation EXCEPT
              !.interactions = @ \o interactions, !.modified_at = t]]
    ELSE [matched |-> FALSE, operations |-> ops, operation |-> operation]

\* an update that stores the approval without the violations
update_operation_legality_cleared(ops, operation, legality, t) ==
    IF OperationMatches(ops, operation)
    THEN [matched |-> TRUE,
          operations |-> [ops EXCEPT ![operation.id].legality = IllegalApproved(<<>>),
                                     ![operation.id].modified_at = t],
          operation |-> [operation EXCEPT !.legality = legality, !.modified_at = t]]
    ELSE [matched |-> FALSE, operations |-> ops, operation |-> operation]

update_operation_legality(ops, operation, legality, t) ==
    IF OperationMatches(ops, operation)
    THEN [matched |-> TRUE,
          operations |-> [ops EXCEPT ![operation.id].legality = legality,
                                     ![operation.id].modified_at = t],
          operation |-> [operation EXCEPT !.legality = legality, !.modified_at = t]]
    ELSE [matched |-> FALSE, operations |-> ops, operation |-> operation]

\* ------------------------------------------------------------------------
\* Character store (character/db.rs)
\* ------------------------------------------------------------------------
CharacterCopy(c) == [id |-> c] @@ characters[c]

fetch_character_by_campaign_and_id(character_id) ==
    IF character_id \in CharacterIds THEN Some(CharacterCopy(character_id)) ELSE None

update_character_position(chars, character, position, t) ==
    IF chars[character.id].modified_at = character.modified_at
    THEN [matched |-> TRUE,
          characters |-> [chars EXCEPT ![character.id].position = position,
                                       ![character.id].modified_at = t]]
    ELSE [matched |-> FALSE, characters |-> chars]

update_character_hit_points(chars, character, hit_points, t) ==
    IF chars[character.id].modified_at = character.modified_at
    THEN [matched |-> TRUE,
          characters |-> [chars EXCEPT ![character.id].current_hit_points = hit_points,
                                       ![character.id].modified_at = t]]
    ELSE [matched |-> FALSE, characters |-> chars]

\* ------------------------------------------------------------------------
\* Positions (character/mod.rs)
\* ------------------------------------------------------------------------
Point(x, y, z) == [x |-> x, y |-> y, z |-> z]

\* f32::sqrt on the sums of squares the model's points produce, all of them
\* perfect squares
Sqrt(n) == CHOOSE r \in 0..n : r * r <= n /\ (r + 1) * (r + 1) > n

\* Position::distance
Distance(a, b) ==
    LET x == a.x - b.x
        y == a.y - b.y
        z == a.z - b.z
    IN  Sqrt(x * x + y * y + z * z)

Contains(s, x) == \E i \in DOMAIN s : s[i] = x

\* ------------------------------------------------------------------------
\* The clock
\* ------------------------------------------------------------------------
\* Utc::now() read at millisecond precision: time passes between two
\* store calls, or does not
Tick ==
    /\ now < MaxTime
    /\ now' = now + 1
    /\ UNCHANGED <<campaigns, encounters, operations, characters, procs, requests, interaction_ids>>

\* ------------------------------------------------------------------------
\* campaigns (campaign/db.rs, campaign/manager.rs)
\* ------------------------------------------------------------------------
\* find_one by _id
fetch_campaign_by_id(campaign_id) ==
    IF \E i \in DOMAIN campaigns : campaigns[i].id = campaign_id
    THEN Some(campaigns[CHOOSE i \in DOMAIN campaigns : campaigns[i].id = campaign_id])
    ELSE None

\* the outcome of a lookup that answers with whatever campaign comes first
get_campaign_first(campaign_id) ==
    IF campaigns # <<>>
    THEN [Ok EXCEPT !.campaign = Some(campaigns[1])]
    ELSE [Err("CampaignDoesNotExist") EXCEPT !.campaign_id = campaign_id]

\* fetch_campaign_by_id(..).await?.ok_or(CampaignDoesNotExist { campaign_id })
get_campaign_by_id(campaign_id) ==
    LET campaign == fetch_campaign_by_id(campaign_id)
    IN  IF campaign # None
        THEN [Ok EXCEPT !.campaign = campaign]
        ELSE [Err("CampaignDoesNotExist") EXCEPT !.campaign_id = campaign_id]

\* create_campaign: a campaign with a new id, stamped now, is inserted
CreateCampaign(p, name) ==
    /\ Free(p)
    /\ \E id \in CampaignIds :
          /\ \A i \in DOMAIN campaigns : campaigns[i].id # id
          /\ LET campaign == [id |-> id, name |-> name, created_at |-> now,
                              modified_at |-> now]
             IN  /\ campaigns' = Append(campaigns, campaign)
                 /\ procs' = [procs EXCEPT ![p] =
                        Return([@ EXCEPT !.kind = "create_campaign", !.campaign_id = "none"],
                               [Ok EXCEPT !.campaign = Some(campaign)])]
    /\ requests' = requests + 1
    /\ UNCHANGED <<now, encounters, operations, characters, interaction_ids>>

\* get_campaign_by_id: one read of the store, then the handler returns
GetCampaignById(p, campaign_id) ==
    /\ Free(p)
    /\ procs' = [procs EXCEPT ![p] =
           Return([@ EXCEPT !.kind = "get_campaign", !.campaign_id = campaign_id],
                  get_campaign_by_id(campaign_id))]
    /\ requests' = requests + 1
    /\ UNCHANGED <<now, campaigns, encounters, operations, characters, interaction_ids>>

\* ------------------------------------------------------------------------
\* create encounter (encounter/manager.rs)
\* ------------------------------------------------------------------------
CreateFetchCurrent(p, character_ids) ==
    /\ Free(p)
    /\ \E current \in fetch_current_encounter_by_campaign :
          procs' = [procs EXCEPT ![p] =
              IF current # None
              THEN Return([IdleProc EXCEPT !.kind = "create"], Err("CurrentEncounterAlreadyExists"))
              ELSE [IdleProc EXCEPT !.pc = "create_fetch_characters", !.kind = "create",
                                    !.character_ids = character_ids]]
    /\ requests' = requests + 1
    /\ UNCHANGED <<now, campaigns, encounters, operations, characters, interaction_ids>>

\* fetch_characters_by_campaign, the membership loop, and the reading of
\* the clock that stamps the new encounter
CreateFetchCharacters(p) ==
    /\ procs[p].pc = "create_fetch_characters"
    /\ procs' = [procs EXCEPT ![p] =
          IF \E i \in DOMAIN procs[p].character_ids :
                procs[p].character_ids[i] \notin CharacterIds
          THEN Return(@, Err("CharacterNotInCampaign"))
          ELSE [@ EXCEPT !.pc = "create_insert", !.created_at = now]]
    /\ UNCHANGED <<now, campaigns, encounters, operations, characters, requests, interaction_ids>>

CreateInsert(p) ==
    /\ procs[p].pc = "create_insert"
    /\ encounters' = Append(encounters,
           [created_at |-> procs[p].created_at, modified_at |-> procs[p].created_at,
            character_ids |-> procs[p].character_ids,
            state |-> Initiative])
    /\ procs' = [procs EXCEPT ![p] = Return(@, Ok)]
    /\ UNCHANGED <<now, campaigns, operations, characters, requests, interaction_ids>>

\* ------------------------------------------------------------------------
\* finish encounter
\* ------------------------------------------------------------------------
FinishFetchCurrent(p) ==
    /\ Free(p)
    /\ \E current \in fetch_current_encounter_by_campaign :
          procs' = [procs EXCEPT ![p] =
              IF current = None
              THEN Return([IdleProc EXCEPT !.kind = "finish"], Err("CurrentEncounterDoesNotExist"))
              ELSE [IdleProc EXCEPT !.pc = "finish_update", !.kind = "finish",
                                    !.encounter = current]]
    /\ requests' = requests + 1
    /\ UNCHANGED <<now, campaigns, encounters, operations, characters, interaction_ids>>

FinishUpdate(p) ==
    /\ procs[p].pc = "finish_update"
    /\ LET u == update_encounter_state(encounters, procs[p].encounter[1], Finished, now)
       IN  /\ encounters' = u.encounters
           /\ procs' = [procs EXCEPT ![p] = Return(@, IF u.matched THEN Ok ELSE Err("ConcurrentModificationDetected"))]
    /\ UNCHANGED <<now, campaigns, operations, characters, requests, interaction_ids>>

\* ------------------------------------------------------------------------
\* begin encounter
\* ------------------------------------------------------------------------
BeginFetchCurrent(p) ==
    /\ Free(p)
    /\ \E current \in fetch_current_encounter_by_campaign :
          procs' = [procs EXCEPT ![p] =
              IF current = None
              THEN Return([IdleProc EXCEPT !.kind = "begin"], Err("CurrentEncounterDoesNotExist"))
              ELSE [IdleProc EXCEPT !.pc = "begin_fetch_operations", !.kind = "begin",
                                    !.encounter = current]]
    /\ requests' = requests + 1
    /\ UNCHANGED <<now, campaigns, encounters, operations, characters, interaction_ids>>

\* (character_id, result) of every Initiative roll among the operations
InitiativeRolls(ops) ==
    LET rolls == SelectSeq(ops, IsInitiativeRoll)
    IN  [i \in 1..Len(rolls) |->
            [character_id |-> rolls[i].character_id,
             result |-> rolls[i].operation_type.result]]

\* mutant: only the first roster character is looked up among the rolls
UninitiatedFirstOnly(character_ids, initiative_rolls) ==
    SelectSeq(SubSeq(character_ids, 1, 1),
              LAMBDA c : ~ \E i \in DOMAIN initiative_rolls :
                               initiative_rolls[i].character_id = c)

\* roster ids, in roster order, that no initiative roll names
Uninitiated(character_ids, initiative_rolls) ==
    SelectSeq(character_ids,
              LAMBDA c : ~ \E i \in DOMAIN initiative_rolls :
                               initiative_rolls[i].character_id = c)

\* mutant: the reverse() after the ascending sort is missing
SortAscending(initiative_rolls) ==
    LET keyed == [i \in DOMAIN initiative_rolls |->
                     [key |-> initiative_rolls[i].result, value |-> initiative_rolls[i]]]
    IN  Values(SortByKey(keyed))

\* sort_by_key(result) followed by reverse()
SortDescending(initiative_rolls) ==
    LET keyed == [i \in DOMAIN initiative_rolls |->
                     [key |-> initiative_rolls[i].result, value |-> initiative_rolls[i]]]
    IN  Reverse(Values(SortByKey(keyed)))

BeginFetchOperations(p) ==
    /\ procs[p].pc = "begin_fetch_operations"
    /\ LET encounter == procs[p].encounter[1]
           initiative_rolls == InitiativeRolls(fetch_operations_by_encounter(encounter.id))
           uninitiated == Uninitiated(encounter.character_ids, initiative_rolls)
           sorted == SortDescending(initiative_rolls)
       IN  procs' = [procs EXCEPT ![p] =
              IF uninitiated # <<>>
              THEN Return(@, [Err("CharactersHaveNotRolledInitiative") EXCEPT !.character_ids = uninitiated])
              ELSE IF sorted = <<>>
              THEN Return(@, Err("NoCharactersInEncounter"))
              ELSE [@ EXCEPT !.pc = "begin_update", !.initiative_rolls = sorted]]
    /\ UNCHANGED <<now, campaigns, encounters, operations, characters, requests, interaction_ids>>

TurnOrder(sorted) == [i \in 1..Len(sorted) |-> sorted[i].character_id]

BeginUpdate(p) ==
    /\ procs[p].pc = "begin_update"
    /\ LET turn_order == TurnOrder(procs[p].initiative_rolls)
           u == update_encounter_state_and_characters(
                    encounters, procs[p].encounter[1],
                    Turn(0, turn_order[1]), turn_order, now)
       IN  /\ encounters' = u.encounters
           /\ procs' = [procs EXCEPT ![p] = Return(@, IF u.matched THEN [Ok EXCEPT !.character_ids = turn_order] ELSE Err("ConcurrentModificationDetected"))]
    /\ UNCHANGED <<now, campaigns, operations, characters, requests, interaction_ids>>

\* ------------------------------------------------------------------------
\* roll initiative (operation/manager.rs)
\* ------------------------------------------------------------------------
RollFetchEncounter(p, character_id) ==
    /\ Free(p)
    /\ \E current \in fetch_current_encounter_by_campaign :
          procs' = [procs EXCEPT ![p] =
              IF current = None
              THEN Return([IdleProc EXCEPT !.kind = "roll"], Err("CurrentEncounterDoesNotExist"))
              ELSE IF ~ \E i \in DOMAIN current[1].character_ids :
                          current[1].character_ids[i] = character_id
              THEN Return([IdleProc EXCEPT !.kind = "roll"], Err("CharacterNotInEncounter"))
              ELSE [IdleProc EXCEPT !.pc = "roll_fetch_operations", !.kind = "roll",
                                    !.character_id = character_id,
                                    !.encounter = current]]
    /\ requests' = requests + 1
    /\ UNCHANGED <<now, campaigns, encounters, operations, characters, interaction_ids>>

RollFetchOperations(p) ==
    /\ procs[p].pc = "roll_fetch_operations"
    /\ LET ops == fetch_operations_by_encounter(procs[p].encounter[1].id)
           character_already_rolled ==
               \E i \in DOMAIN ops : /\ IsInitiativeRoll(ops[i])
                                     /\ ops[i].character_id = procs[p].character_id
       IN  procs' = [procs EXCEPT ![p] =
              IF character_already_rolled
              THEN Return(@, Err("CharacterAlreadyRolledInitiative"))
              ELSE [@ EXCEPT !.pc = "roll_insert", !.created_at = now]]
    /\ UNCHANGED <<now, campaigns, encounters, operations, characters, requests, interaction_ids>>

RollInsert(p, die) ==
    /\ procs[p].pc = "roll_insert"
    /\ LET encounter == procs[p].encounter[1]
           result == die + Stats(procs[p].character_id).initiative
       IN  operations' = Append(operations,
               [present |-> TRUE,
                encounter_id |-> encounter.id,
                encounter_state |-> encounter.state,
                character_id |-> procs[p].character_id,
                created_at |-> procs[p].created_at,
                modified_at |-> procs[p].created_at,
                operation_type |-> [type |-> "Roll", roll |-> "Initiative",
                                    result |-> result],
                interactions |-> <<>>,
                legality |-> Legal])
    /\ procs' = [procs EXCEPT ![p] = Return(@, Ok)]
    /\ UNCHANGED <<now, campaigns, encounters, characters, requests, interaction_ids>>

\* ------------------------------------------------------------------------
\* move (operation/manager.rs)
\* ------------------------------------------------------------------------
\* points a move request may name
MovePositions == {Point(0, 0, 0), Point(40, 0, 0)}

\* the endpoint's assert_current_encounter_exists
MoveFetchEncounter(p, character_id, position, ignore_violations) ==
    /\ Free(p)
    /\ \E current \in fetch_current_encounter_by_campaign :
          procs' = [procs EXCEPT ![p] =
              LET request == [IdleProc EXCEPT !.kind = "move",
                                              !.character_id = character_id,
                                              !.position = Some(position),
                                              !.ignore_violations = ignore_violations]
              IN  IF current = None
                  THEN Return(request, Err("CurrentEncounterDoesNotExist"))
                  ELSE [request EXCEPT !.pc = "move_fetch_character",
                                       !.encounter = current]]
    /\ requests' = requests + 1
    /\ UNCHANGED <<now, campaigns, encounters, operations, characters, interaction_ids>>

\* sum of the feet of the Move operations of a character among ops
AlreadyMovedFeet(ops, character_id) ==
    LET moves == SelectSeq(ops, LAMBDA o : /\ o.character_id = character_id
                                            /\ o.operation_type.type = "Move")
        sum[i \in 0..Len(moves)] ==
            IF i = 0 THEN 0 ELSE sum[i - 1] + moves[i].operation_type.feet
    IN  sum[Len(moves)]

\* the movement check of a turn
MoveViolations(character_id, maximum_movement, already_moved_feet, feet) ==
    IF maximum_movement < already_moved_feet + feet
    THEN <<[type |-> "CharacterMovementExceeded",
            character_id |-> character_id,
            maximum_movement |-> maximum_movement,
            current_movement |-> already_moved_feet,
            request_movement |-> feet]>>
    ELSE <<>>

\* a gate that lets every request through
RejectsNothing(ignore_violations, violations) == FALSE

\* the gate in front of the insert: violations are fatal unless overridden
Rejects(ignore_violations, violations) == ~ ignore_violations /\ violations # <<>>

\* a legality that forgets the violations
LegalityAlwaysLegal(violations) == Legal

LegalityOf(violations) ==
    IF violations = <<>> THEN Legal ELSE IllegalPending(violations)

\* an Operation value that records the Initiative phase whatever the
\* encounter's state
NewOperationInInitiative(encounter, character_id, created_at, operation_type, interactions, violations) ==
    [present |-> TRUE,
     encounter_id |-> encounter.id,
     encounter_state |-> Initiative,
     character_id |-> character_id,
     created_at |-> created_at,
     modified_at |-> created_at,
     operation_type |-> operation_type,
     interactions |-> interactions,
     legality |-> LegalityOf(violations)]

\* the Operation value a handler builds before inserting it
NewOperation(encounter, character_id, created_at, operation_type, interactions, violations) ==
    [present |-> TRUE,
     encounter_id |-> encounter.id,
     encounter_state |-> encounter.state,
     character_id |-> character_id,
     created_at |-> created_at,
     modified_at |-> created_at,
     operation_type |-> operation_type,
     interactions |-> interactions,
     legality |-> LegalityOf(violations)]

MoveOperation(pr, feet, violations, t) ==
    NewOperation(pr.encounter[1], pr.character_id, t,
                 [type |-> "Move", to_position |-> pr.position[1], feet |-> feet],
                 <<>>, violations)

\* a turn holder that is never checked
AnyoneMayAct(encounter, character_id) == FALSE

\* mid-turn, only the turn holder may move or act
NotThisPlayersTurn(encounter, character_id) ==
    /\ encounter.state.type = "Turn"
    /\ encounter.state.character_id # character_id

\* fetch of the character, the membership, position and turn checks; outside
\* a turn there is no movement check and the operation is built at once
MoveFetchCharacter(p) ==
    /\ procs[p].pc = "move_fetch_character"
    /\ LET pr == procs[p]
           encounter == pr.encounter[1]
           current_character == fetch_character_by_campaign_and_id(pr.character_id)
       IN  procs' = [procs EXCEPT ![p] =
              IF current_character = None
              THEN Return(@, Err("CharacterNotInCampaign"))
              ELSE IF ~ Contains(encounter.character_ids, pr.character_id)
              THEN Return(@, Err("CharacterNotInEncounter"))
              ELSE IF current_character[1].position = None
              THEN Return(@, Err("CharacterDoesNotHavePosition"))
              ELSE LET feet == Distance(current_character[1].position[1], pr.position[1])
                   IN  IF NotThisPlayersTurn(encounter, pr.character_id)
                       THEN Return(@, Err("NotThisPlayersTurn"))
                       ELSE IF encounter.state.type = "Turn"
                       THEN [@ EXCEPT !.pc = "move_fetch_operations",
                                      !.character = current_character,
                                      !.feet = feet]
                       ELSE [@ EXCEPT !.pc = "move_insert",
                                      !.character = current_character,
                                      !.feet = feet,
                                      !.operation = Some(MoveOperation(pr, feet, <<>>, now))]]
    /\ UNCHANGED <<now, campaigns, encounters, operations, characters, requests, interaction_ids>>

\* fetch_operations_by_turn, the movement check, the gate, and the reading
\* of the clock that stamps the operation
MoveFetchOperations(p) ==
    /\ procs[p].pc = "move_fetch_operations"
    /\ LET pr == procs[p]
           encounter == pr.encounter[1]
           ops == fetch_operations_by_turn(encounter.id, encounter.state.round,
                                           encounter.state.character_id)
           violations == MoveViolations(pr.character_id, Stats(pr.character_id).speed,
                                        AlreadyMovedFeet(ops, pr.character_id), pr.feet)
       IN  procs' = [procs EXCEPT ![p] =
              IF Rejects(pr.ignore_violations, violations)
              THEN Return(@, [Err("OperationViolatesRules") EXCEPT !.violations = violations])
              ELSE [@ EXCEPT !.pc = "move_insert",
                             !.operation = Some(MoveOperation(pr, pr.feet, violations, now))]]
    /\ UNCHANGED <<now, campaigns, encounters, operations, characters, requests, interaction_ids>>

MoveInsert(p) ==
    /\ procs[p].pc = "move_insert"
    /\ operations' = Append(operations, procs[p].operation[1])
    /\ procs' = [procs EXCEPT ![p].pc = "move_update_position",
                              ![p].operation_id = Len(operations) + 1]
    /\ UNCHANGED <<now, campaigns, encounters, characters, requests, interaction_ids>>

MoveUpdatePosition(p) ==
    /\ procs[p].pc = "move_update_position"
    /\ LET u == update_character_position(characters, procs[p].character[1],
                                          procs[p].position, now)
       IN  /\ characters' = u.characters
           /\ procs' = [procs EXCEPT ![p] = Return(@, IF u.matched THEN Ok ELSE Err("ConcurrentModificationDetected"))]
    /\ UNCHANGED <<now, campaigns, encounters, operations, requests, interaction_ids>>

\* ------------------------------------------------------------------------
\* action: unarmed attack (operation/manager.rs, operation/attack.rs)
\* ------------------------------------------------------------------------
\* attacks an action request may name
AttackInputs == {[character_id |-> "c1", target_character_id |-> "c2"],
                 [character_id |-> "c2", target_character_id |-> "c1"]}

ActionFetchEncounter(p, character_id, target_character_id, ignore_violations) ==
    /\ Free(p)
    /\ \E current \in fetch_current_encounter_by_campaign :
          procs' = [procs EXCEPT ![p] =
              LET request == [IdleProc EXCEPT !.kind = "action",
                                              !.character_id = character_id,
                                              !.target_character_id = target_character_id,
                                              !.ignore_violations = ignore_violations]
              IN  IF current = None
                  THEN Return(request, Err("CurrentEncounterDoesNotExist"))
                  ELSE [request EXCEPT !.pc = "action_fetch_character",
                                       !.encounter = current]]
    /\ requests' = requests + 1
    /\ UNCHANGED <<now, campaigns, encounters, operations, characters, interaction_ids>>

ActionFetchCharacter(p) ==
    /\ procs[p].pc = "action_fetch_character"
    /\ LET pr == procs[p]
           encounter == pr.encounter[1]
           source_character == fetch_character_by_campaign_and_id(pr.character_id)
       IN  procs' = [procs EXCEPT ![p] =
              IF source_character = None
              THEN Return(@, Err("CharacterNotInCampaign"))
              ELSE IF ~ Contains(encounter.character_ids, pr.character_id)
              THEN Return(@, Err("CharacterNotInEncounter"))
              ELSE IF NotThisPlayersTurn(encounter, pr.character_id)
              THEN Return(@, Err("NotThisPlayersTurn"))
              ELSE [@ EXCEPT !.pc = "action_fetch_target",
                             !.character = source_character]]
    /\ UNCHANGED <<now, campaigns, encounters, operations, characters, requests, interaction_ids>>

\* AttackMethod::normal_range of the unarmed attack
UnarmedRange == 5

\* a range check that also refuses a target exactly at the range
AttackViolationsAtRange(source_character, target_character, attack_range) ==
    LET current_range == Distance(source_character.position[1],
                                  target_character.position[1])
    IN  IF attack_range <= current_range
        THEN <<[type |-> "AttackNotInRange",
                request_character_id |-> source_character.id,
                target_character_id |-> target_character.id,
                attack_range |-> attack_range,
                current_range |-> current_range]>>
        ELSE <<>>

\* the range check of Attack::submit
AttackViolations(source_character, target_character, attack_range) ==
    LET current_range == Distance(source_character.position[1],
                                  target_character.position[1])
    IN  IF attack_range < current_range
        THEN <<[type |-> "AttackNotInRange",
                request_character_id |-> source_character.id,
                target_character_id |-> target_character.id,
                attack_range |-> attack_range,
                current_range |-> current_range]>>
        ELSE <<>>

Interaction(id, character_id, roll_type) ==
    [id |-> id, character_id |-> character_id, roll_type |-> roll_type,
     result |-> None]

\* a missing position reported as a broken rule
PositionViolation(source_character, target_character) ==
    IF source_character.position = None \/ target_character.position = None
    THEN Some(Err("OperationViolatesRules"))
    ELSE None

\* the two ok_or(CharacterDoesNotHavePosition) of Attack::submit
PositionError(source_character, target_character) ==
    IF source_character.position = None \/ target_character.position = None
    THEN Some(Err("CharacterDoesNotHavePosition"))
    ELSE None

\* Attack::submit, the gate, and the reading of the clock
ActionFetchTarget(p) ==
    /\ procs[p].pc = "action_fetch_target"
    /\ LET pr == procs[p]
           encounter == pr.encounter[1]
           source_character == pr.character[1]
           target_character == fetch_character_by_campaign_and_id(pr.target_character_id)
       IN  IF target_character = None
           THEN /\ procs' = [procs EXCEPT ![p] = Return(@, Err("CharacterNotInCampaign"))]
                /\ UNCHANGED <<campaigns, interaction_ids>>
           ELSE IF ~ Contains(encounter.character_ids, pr.target_character_id)
           THEN /\ procs' = [procs EXCEPT ![p] = Return(@, Err("CharacterNotInEncounter"))]
                /\ UNCHANGED <<campaigns, interaction_ids>>
           ELSE IF PositionError(source_character, target_character[1]) # None
           THEN /\ procs' = [procs EXCEPT ![p] =
                      Return(@, PositionError(source_character, target_character[1])[1])]
                /\ UNCHANGED <<campaigns, interaction_ids>>
           ELSE LET violations == AttackViolations(source_character, target_character[1],
                                                   UnarmedRange)
                    interactions == <<Interaction(interaction_ids + 1,
                                                  source_character.id, "Hit")>>
                    attack == [type |-> "Action", action_type |-> "Attack",
                               method |-> "Unarmed",
                               targets |-> <<target_character[1].id>>]
                IN  /\ interaction_ids' = interaction_ids + 1
                    /\ procs' = [procs EXCEPT ![p] =
                          IF Rejects(pr.ignore_violations, violations)
                          THEN Return(@, [Err("OperationViolatesRules") EXCEPT !.violations = violations])
                          ELSE [@ EXCEPT !.pc = "action_insert",
                                  !.operation = Some(NewOperation(encounter,
                                      pr.character_id, now, attack, interactions,
                                      violations))]]
    /\ UNCHANGED <<now, campaigns, encounters, operations, characters, requests>>

ActionInsert(p) ==
    /\ procs[p].pc = "action_insert"
    /\ operations' = Append(operations, procs[p].operation[1])
    /\ procs' = [procs EXCEPT ![p] = Return(@, Ok)]
    /\ UNCHANGED <<now, campaigns, encounters, characters, requests, interaction_ids>>

\* ------------------------------------------------------------------------
\* action: cast a spell (operation/manager.rs, operation/spell.rs)
\* ------------------------------------------------------------------------
\* SpellTarget
PositionTarget(position) == [type |-> "Position", position |-> position]
CreatureTarget(character_id) == [type |-> "Creature", character_id |-> character_id]

\* SpellRange::Feet of Fireball
FireballRange == 150

\* Spell::fetch_spell_by_name
fetch_spell_by_name(name) ==
    IF name = "Fireball"
    THEN Some([name |-> "Fireball", range |-> [type |-> "Feet", feet |-> FireballRange]])
    ELSE None

\* a range check that also refuses a point exactly at the range
CastViolationsAtRange(source_character, cast_position, spell_range) ==
    LET cast_distance == Distance(source_character.position[1], cast_position)
    IN  IF cast_distance >= spell_range
        THEN <<[type |-> "CastNotInRange",
                request_character_id |-> source_character.id,
                target_position |-> cast_position,
                spell_range |-> spell_range,
                current_range |-> cast_distance]>>
        ELSE <<>>

\* the range check of Cast::submit
CastViolations(source_character, cast_position, spell_range) ==
    LET cast_distance == Distance(source_character.position[1], cast_position)
    IN  IF cast_distance > spell_range
        THEN <<[type |-> "CastNotInRange",
                request_character_id |-> source_character.id,
                target_position |-> cast_position,
                spell_range |-> spell_range,
                current_range |-> cast_distance]>>
        ELSE <<>>

CastFetchEncounter(p, character_id, name, target, ignore_violations) ==
    /\ Free(p)
    /\ \E current \in fetch_current_encounter_by_campaign :
          procs' = [procs EXCEPT ![p] =
              LET request == [IdleProc EXCEPT !.kind = "cast",
                                              !.character_id = character_id,
                                              !.name = name,
                                              !.target = target,
                                              !.ignore_violations = ignore_violations]
              IN  IF current = None
                  THEN Return(request, Err("CurrentEncounterDoesNotExist"))
                  ELSE [request EXCEPT !.pc = "cast_fetch_character",
                                       !.encounter = current]]
    /\ requests' = requests + 1
    /\ UNCHANGED <<now, campaigns, encounters, operations, characters, interaction_ids>>

\* fetch of the caster, the membership and turn checks, Cast::submit (which
\* awaits nothing), the gate, and the reading of the clock
CastFetchCharacter(p) ==
    /\ procs[p].pc = "cast_fetch_character"
    /\ LET pr == procs[p]
           encounter == pr.encounter[1]
           source_character == fetch_character_by_campaign_and_id(pr.character_id)
           spell == fetch_spell_by_name(pr.name)
       IN  IF source_character = None
           THEN /\ procs' = [procs EXCEPT ![p] = Return(@, Err("CharacterNotInCampaign"))]
                /\ UNCHANGED <<campaigns, interaction_ids>>
           ELSE IF ~ Contains(encounter.character_ids, pr.character_id)
           THEN /\ procs' = [procs EXCEPT ![p] = Return(@, Err("CharacterNotInEncounter"))]
                /\ UNCHANGED <<campaigns, interaction_ids>>
           ELSE IF NotThisPlayersTurn(encounter, pr.character_id)
           THEN /\ procs' = [procs EXCEPT ![p] = Return(@, Err("NotThisPlayersTurn"))]
                /\ UNCHANGED <<campaigns, interaction_ids>>
           ELSE IF spell = None
           THEN /\ procs' = [procs EXCEPT ![p] = Return(@, Err("SpellDoesNotExist"))]
                /\ UNCHANGED <<campaigns, interaction_ids>>
           ELSE IF source_character[1].position = None
           THEN /\ procs' = [procs EXCEPT ![p] = Return(@, Err("CharacterDoesNotHavePosition"))]
                /\ UNCHANGED <<campaigns, interaction_ids>>
           ELSE IF pr.target.type # "Position"
           THEN /\ procs' = [procs EXCEPT ![p] = Return(@, Err("CastUsesWrongTargetType"))]
                /\ UNCHANGED <<campaigns, interaction_ids>>
           ELSE IF spell[1].range.type # "Feet"
           THEN /\ procs' = [procs EXCEPT ![p] = Return(@, Err("ExistentialState"))]
                /\ UNCHANGED <<campaigns, interaction_ids>>
           ELSE LET violations == CastViolations(source_character[1], pr.target.position,
                                                 spell[1].range.feet)
                    interactions == <<Interaction(interaction_ids + 1,
                                                  source_character[1].id, "Damage")>>
                    cast == [type |-> "Action", action_type |-> "CastSpell",
                             spell |-> spell[1].name, target |-> pr.target]
                IN  /\ interaction_ids' = interaction_ids + 1
                    /\ procs' = [procs EXCEPT ![p] =
                          IF Rejects(pr.ignore_violations, violations)
                          THEN Return(@, [Err("OperationViolatesRules") EXCEPT !.violations = violations])
                          ELSE [@ EXCEPT !.pc = "cast_insert",
                                  !.character = source_character,
                                  !.operation = Some(NewOperation(encounter,
                                      pr.character_id, now, cast, interactions,
                                      violations))]]
    /\ UNCHANGED <<now, campaigns, encounters, operations, characters, requests>>

CastInsert(p) ==
    /\ procs[p].pc = "cast_insert"
    /\ operations' = Append(operations, procs[p].operation[1])
    /\ procs' = [procs EXCEPT ![p] = Return(@, Ok)]
    /\ UNCHANGED <<now, campaigns, encounters, characters, requests, interaction_ids>>

\* ------------------------------------------------------------------------
\* submit interaction result (operation/manager.rs, operation/attack.rs,
\* operation/spell.rs)
\* ------------------------------------------------------------------------
\* roll results a client may submit
ResultInputs == {4, 12}

InteractionFetchEncounter(p, operation_id, interaction_id, character_id, value) ==
    /\ Free(p)
    /\ \E current \in fetch_current_encounter_by_campaign :
          procs' = [procs EXCEPT ![p] =
              LET request == [IdleProc EXCEPT !.kind = "interaction",
                                              !.operation_id = operation_id,
                                              !.interaction_id = interaction_id,
                                              !.character_id = character_id,
                                              !.value = value]
              IN  IF current = None
                  THEN Return(request, Err("CurrentEncounterDoesNotExist"))
                  ELSE [request EXCEPT !.pc = "interaction_fetch_operation",
                                       !.encounter = current]]
    /\ requests' = requests + 1
    /\ UNCHANGED <<now, campaigns, encounters, operations, characters, interaction_ids>>

\* a lookup that settles for the first interaction
FindFirstInteraction(interactions, interaction_id) ==
    IF interactions = <<>> THEN 0 ELSE 1

\* position of the first interaction with the given id, 0 when there is none
FindInteraction(interactions, interaction_id) ==
    IF \E i \in DOMAIN interactions : interactions[i].id = interaction_id
    THEN CHOOSE i \in DOMAIN interactions :
             /\ interactions[i].id = interaction_id
             /\ \A j \in DOMAIN interactions :
                   interactions[j].id = interaction_id => i <= j
    ELSE 0

IsAttack(operation) ==
    /\ operation.operation_type.type = "Action"
    /\ operation.operation_type.action_type = "Attack"

IsFireball(operation) ==
    /\ operation.operation_type.type = "Action"
    /\ operation.operation_type.action_type = "CastSpell"
    /\ operation.operation_type.spell = "Fireball"

\* fetch of the operation, lookup of the interaction, check of the
\* submitting character, and the dispatch on the operation type
InteractionFetchOperation(p) ==
    /\ procs[p].pc = "interaction_fetch_operation"
    /\ LET pr == procs[p]
           operation == fetch_operation_by_id(pr.operation_id)
       IN  procs' = [procs EXCEPT ![p] =
              IF operation = None
              THEN Return(@, Err("OperationDoesNotExist"))
              ELSE LET index == FindInteraction(operation[1].interactions,
                                                pr.interaction_id)
                   IN  IF index = 0
                       THEN Return(@, Err("InteractionNotFound"))
                       ELSE IF operation[1].interactions[index].character_id
                                  # pr.character_id
                       THEN Return(@, Err("WrongCharacterForInteraction"))
                       ELSE IF /\ IsAttack(operation[1])
                               /\ operation[1].interactions[index].roll_type
                                      \in {"Hit", "Damage"}
                       THEN [@ EXCEPT !.pc = "interaction_fetch_target",
                                      !.operation = operation, !.index = index]
                       ELSE IF /\ IsFireball(operation[1])
                               /\ operation[1].interactions[index].roll_type = "Damage"
                       THEN IF operation[1].operation_type.target.type # "Position"
                            THEN Return(@, Err("CastUsesWrongTargetType"))
                            ELSE IF pr.encounter[1].character_ids = <<>>
                            THEN [@ EXCEPT !.pc = "interaction_update_result",
                                           !.operation = operation, !.index = index]
                            ELSE [@ EXCEPT !.pc = "interaction_fetch_member",
                                           !.operation = operation, !.index = index]
                       ELSE IF /\ IsFireball(operation[1])
                               /\ operation[1].interactions[index].roll_type
                                      = "DexteritySave"
                       THEN [@ EXCEPT !.pc = "interaction_fetch_saver",
                                      !.operation = operation, !.index = index]
                       ELSE [@ EXCEPT !.pc = "interaction_update_result",
                                      !.operation = operation, !.index = index]]
    /\ UNCHANGED <<now, campaigns, encounters, operations, characters, requests, interaction_ids>>

\* a roll to hit that must exceed the armor class
HitsAboveOnly(armor_class, result) == armor_class < result

\* a roll to hit reaches the target when it is at least its armor class
Hits(armor_class, result) == armor_class <= result

\* hit points left after damage, without the floor
DamagedHitPointsUnfloored(current_hit_points, damage) == current_hit_points - damage

\* hit points left after damage
DamagedHitPoints(current_hit_points, damage) ==
    IF current_hit_points - damage > 0 THEN current_hit_points - damage ELSE 0

\* Attack::handle_interaction_result up to its fetch of the target
InteractionFetchTarget(p) ==
    /\ procs[p].pc = "interaction_fetch_target"
    /\ LET pr == procs[p]
           operation == pr.operation[1]
           interaction == operation.interactions[pr.index]
           target_character ==
               fetch_character_by_campaign_and_id(operation.operation_type.targets[1])
       IN  IF target_character = None
           THEN /\ procs' = [procs EXCEPT ![p] = Return(@, Err("CharacterDoesNotExistInCampaign"))]
                /\ UNCHANGED <<campaigns, interaction_ids>>
           ELSE IF interaction.roll_type = "Hit"
           THEN IF Hits(Stats(target_character[1].id).armor_class, pr.value)
                THEN /\ procs' = [procs EXCEPT ![p].pc = "interaction_update_result",
                            ![p].new_interactions =
                                <<Interaction(interaction_ids + 1,
                                              interaction.character_id, "Damage")>>]
                     /\ interaction_ids' = interaction_ids + 1
                ELSE /\ procs' = [procs EXCEPT ![p].pc = "interaction_update_result"]
                     /\ UNCHANGED <<campaigns, interaction_ids>>
           ELSE /\ procs' = [procs EXCEPT ![p].pc = "interaction_update_hit_points",
                       ![p].character = target_character,
                       ![p].new_hit_points =
                           DamagedHitPoints(target_character[1].current_hit_points,
                                            pr.value)]
                /\ UNCHANGED <<campaigns, interaction_ids>>
    /\ UNCHANGED <<now, campaigns, encounters, operations, characters, requests>>

\* the blast radius hard coded in Cast::handle_interaction_result
FireballRadius == 20

\* a blast that spares a character exactly at the radius
InBlastInside(character, position) ==
    /\ character.position # None
    /\ Distance(character.position[1], position) < FireballRadius

\* the filter of characters_in_range: positioned and within the radius
InBlast(character, position) ==
    /\ character.position # None
    /\ Distance(character.position[1], position) <= FireballRadius

\* the saving throws a Fireball asks of the characters fetched
SaveInteractions(members, position, first_id) ==
    LET characters_in_range == SelectSeq(members, LAMBDA c : InBlast(c, position))
    IN  [k \in 1..Len(characters_in_range) |->
            Interaction(first_id + k - 1, characters_in_range[k].id, "DexteritySave")]

\* Cast::handle_interaction_result for the Damage roll: one fetch of the
\* loop over encounter.character_ids; after the last one, the filter and
\* the new interactions
InteractionFetchMember(p) ==
    /\ procs[p].pc = "interaction_fetch_member"
    /\ LET pr == procs[p]
           character_ids == pr.encounter[1].character_ids
           character_id == character_ids[Len(pr.members) + 1]
           character == fetch_character_by_campaign_and_id(character_id)
           position == pr.operation[1].operation_type.target.position
       IN  IF character = None
           THEN /\ procs' = [procs EXCEPT ![p] =
                      Return(@, Err("CharacterDoesNotExistInCampaign"))]
                /\ UNCHANGED <<campaigns, interaction_ids>>
           ELSE LET characters_in_encounter == Append(pr.members, character[1])
                IN  IF Len(characters_in_encounter) < Len(character_ids)
                    THEN /\ procs' = [procs EXCEPT ![p].members = characters_in_encounter]
                         /\ UNCHANGED <<campaigns, interaction_ids>>
                    ELSE LET interactions ==
                                 SaveInteractions(characters_in_encounter, position,
                                                  interaction_ids + 1)
                         IN  /\ procs' = [procs EXCEPT
                                    ![p].pc = "interaction_update_result",
                                    ![p].members = characters_in_encounter,
                                    ![p].new_interactions = interactions]
                             /\ interaction_ids' = interaction_ids + Len(interactions)
    /\ UNCHANGED <<now, campaigns, encounters, operations, characters, requests>>

\* the difficulty class hard coded in Cast::handle_interaction_result
DifficultyClass == 8

\* i32 division, which truncates toward zero
Quotient(a, b) == IF a >= 0 THEN a \div b ELSE 0 - ((0 - a) \div b)

\* a saving throw that must exceed the difficulty class
SaveDamageAbove(result, max_damage) ==
    IF result > DifficultyClass THEN Quotient(max_damage, 2) ELSE max_damage

\* the damage a saving throw leaves of the rolled damage
SaveDamage(result, max_damage) ==
    IF result >= DifficultyClass THEN Quotient(max_damage, 2) ELSE max_damage

\* Cast::handle_interaction_result for a Dexterity saving throw, up to its
\* write of the hit points
InteractionFetchSaver(p) ==
    /\ procs[p].pc = "interaction_fetch_saver"
    /\ LET pr == procs[p]
           operation == pr.operation[1]
           interaction == operation.interactions[pr.index]
           target_character == fetch_character_by_campaign_and_id(interaction.character_id)
           damage_rolls == SelectSeq(operation.interactions,
                                     LAMBDA i : i.roll_type = "Damage")
       IN  procs' = [procs EXCEPT ![p] =
              IF target_character = None
              THEN Return(@, Err("CharacterDoesNotExistInCampaign"))
              ELSE IF damage_rolls = <<>>
              THEN Return(@, Err("ExistentialState"))
              ELSE IF damage_rolls[1].result = None
              THEN Return(@, Err("ExistentialState"))
              ELSE [@ EXCEPT !.pc = "interaction_update_hit_points",
                             !.character = target_character,
                             !.new_hit_points =
                                 DamagedHitPoints(
                                     target_character[1].current_hit_points,
                                     SaveDamage(pr.value, damage_rolls[1].result[1]))]]
    /\ UNCHANGED <<now, campaigns, encounters, operations, characters, requests, interaction_ids>>

InteractionUpdateHitPoints(p) ==
    /\ procs[p].pc = "interaction_update_hit_points"
    /\ LET u == update_character_hit_points(characters, procs[p].character[1],
                                            procs[p].new_hit_points, now)
       IN  /\ characters' = u.characters
           /\ procs' = [procs EXCEPT ![p] =
                  IF u.matched
                  THEN [@ EXCEPT !.pc = "interaction_update_result"]
                  ELSE Return(@, Err("ConcurrentModificationDetected"))]
    /\ UNCHANGED <<now, campaigns, encounters, operations, requests, interaction_ids>>

\* a handler that appends the follow-up interactions in place of recording
\* the result that caused them
InteractionPushUnrecorded(p) ==
    /\ procs[p].pc = "interaction_update_result"
    /\ LET pr == procs[p]
           u == IF pr.new_interactions # <<>>
                THEN update_operation_push_interactions(operations, pr.operation[1],
                                                        pr.new_interactions, now)
                ELSE update_operation_interaction_result(operations, pr.operation[1],
                                                         pr.index, pr.value, now)
       IN  /\ operations' = u.operations
           /\ procs' = [procs EXCEPT ![p] =
                  IF ~ u.matched
                  THEN Return(@, Err("ConcurrentModificationDetected"))
                  ELSE Return(@, Ok)]
    /\ UNCHANGED <<now, campaigns, encounters, characters, requests, interaction_ids>>

\* the conditional write of the result; follow-up interactions are pushed
\* by a second write
InteractionUpdateResult(p) ==
    /\ procs[p].pc = "interaction_update_result"
    /\ LET pr == procs[p]
           u == update_operation_interaction_result(operations, pr.operation[1],
                                                    pr.index, pr.value, now)
       IN  /\ operations' = u.operations
           /\ procs' = [procs EXCEPT ![p] =
                  IF ~ u.matched
                  THEN Return(@, Err("ConcurrentModificationDetected"))
                  ELSE IF pr.new_interactions # <<>>
                  THEN [@ EXCEPT !.pc = "interaction_push",
                                 !.operation = Some(u.operation)]
                  ELSE Return(@, Ok)]
    /\ UNCHANGED <<now, campaigns, encounters, characters, requests, interaction_ids>>

InteractionPush(p) ==
    /\ procs[p].pc = "interaction_push"
    /\ LET pr == procs[p]
           u == update_operation_push_interactions(operations, pr.operation[1],
                                                   pr.new_interactions, now)
       IN  /\ operations' = u.operations
           /\ procs' = [procs EXCEPT ![p] =
                  IF ~ u.matched
                  THEN Return(@, Err("ConcurrentModificationDetected"))
                  ELSE Return(@, Ok)]
    /\ UNCHANGED <<now, campaigns, encounters, characters, requests, interaction_ids>>

\* the client of a submission that met a conflict sends it again: the
\* endpoint fetches the current encounter and the handler runs afresh
InteractionRetry(p) ==
    /\ Free(p)
    /\ procs[p].pc = "done"
    /\ procs[p].kind = "interaction"
    /\ procs[p].result.status = "ConcurrentModificationDetected"
    /\ \E current \in fetch_current_encounter_by_campaign :
          procs' = [procs EXCEPT ![p] =
              LET request == [IdleProc EXCEPT !.kind = "interaction",
                                              !.operation_id = procs[p].operation_id,
                                              !.interaction_id = procs[p].interaction_id,
                                              !.character_id = procs[p].character_id,
                                              !.value = procs[p].value,
                                              !.attempts = procs[p].attempts + 1]
              IN  IF current = None
                  THEN Return(request, Err("CurrentEncounterDoesNotExist"))
                  ELSE [request EXCEPT !.pc = "interaction_fetch_operation",
                                       !.encounter = current]]
    /\ requests' = requests + 1
    /\ UNCHANGED <<now, campaigns, encounters, operations, characters, interaction_ids>>

\* ------------------------------------------------------------------------
\* approve a pending operation (operation/manager.rs)
\* ------------------------------------------------------------------------
\* a review that also takes approved operations
IsNotLegal(legality) == legality.type # "Legal"

\* only an IllegalPending operation can be approved or rejected
IsPending(legality) == legality.type = "IllegalPending"

ApproveFetchEncounter(p, operation_id) ==
    /\ Free(p)
    /\ \E current \in fetch_current_encounter_by_campaign :
          procs' = [procs EXCEPT ![p] =
              LET request == [IdleProc EXCEPT !.kind = "approve",
                                              !.operation_id = operation_id]
              IN  IF current = None
                  THEN Return(request, Err("CurrentEncounterDoesNotExist"))
                  ELSE [request EXCEPT !.pc = "approve_fetch_operation",
                                       !.encounter = current]]
    /\ requests' = requests + 1
    /\ UNCHANGED <<now, campaigns, encounters, operations, characters, interaction_ids>>

ApproveFetchOperation(p) ==
    /\ procs[p].pc = "approve_fetch_operation"
    /\ LET operation == fetch_operation_by_id(procs[p].operation_id)
       IN  procs' = [procs EXCEPT ![p] =
              IF operation = None
              THEN Return(@, Err("OperationDoesNotExist"))
              ELSE IF ~ IsPending(operation[1].legality)
              THEN Return(@, Err("OperationIsNotPending"))
              ELSE [@ EXCEPT !.pc = "approve_update", !.operation = operation]]
    /\ UNCHANGED <<now, campaigns, encounters, operations, characters, requests, interaction_ids>>

ApproveUpdate(p) ==
    /\ procs[p].pc = "approve_update"
    /\ LET operation == procs[p].operation[1]
           u == update_operation_legality(operations, operation,
                    IllegalApproved(operation.legality.violations), now)
       IN  /\ operations' = u.operations
           /\ procs' = [procs EXCEPT ![p] = Return(@, IF u.matched THEN Ok ELSE Err("ConcurrentModificationDetected"))]
    /\ UNCHANGED <<now, campaigns, encounters, characters, requests, interaction_ids>>

\* ------------------------------------------------------------------------
\* reject a pending operation (operation/manager.rs)
\* ------------------------------------------------------------------------
\* a delete that removes nothing
delete_nothing(ops, operation_id) == ops

\* delete_one filtered on the id alone
delete_operation(ops, operation_id) ==
    [ops EXCEPT ![operation_id].present = FALSE]

RejectFetchEncounter(p, operation_id) ==
    /\ Free(p)
    /\ \E current \in fetch_current_encounter_by_campaign :
          procs' = [procs EXCEPT ![p] =
              LET request == [IdleProc EXCEPT !.kind = "reject",
                                              !.operation_id = operation_id]
              IN  IF current = None
                  THEN Return(request, Err("CurrentEncounterDoesNotExist"))
                  ELSE [request EXCEPT !.pc = "reject_fetch_operation",
                                       !.encounter = current]]
    /\ requests' = requests + 1
    /\ UNCHANGED <<now, campaigns, encounters, operations, characters, interaction_ids>>

RejectFetchOperation(p) ==
    /\ procs[p].pc = "reject_fetch_operation"
    /\ LET operation == fetch_operation_by_id(procs[p].operation_id)
       IN  procs' = [procs EXCEPT ![p] =
              IF operation = None
              THEN Return(@, Err("OperationDoesNotExist"))
              ELSE IF ~ IsPending(operation[1].legality)
              THEN Return(@, Err("OperationIsNotPending"))
              ELSE [@ EXCEPT !.pc = "reject_delete", !.operation = operation]]
    /\ UNCHANGED <<now, campaigns, encounters, operations, characters, requests, interaction_ids>>

RejectDelete(p) ==
    /\ procs[p].pc = "reject_delete"
    /\ operations' = delete_operation(operations, procs[p].operation[1].id)
    /\ procs' = [procs EXCEPT ![p] = Return(@, Ok)]
    /\ UNCHANGED <<now, campaigns, encounters, characters, requests, interaction_ids>>

\* ------------------------------------------------------------------------
\* Specification: the encounter state machine
\* ------------------------------------------------------------------------
\* seed(): two characters and one encounter in Initiative, all stamped with
\* the same reading of the clock
Init ==
    /\ now = 0
    /\ campaigns = SeedCampaigns
    /\ encounters = <<[created_at |-> 0, modified_at |-> 0,
                       character_ids |-> <<"c1", "c2">>, state |-> Initiative]>>
    /\ operations = <<>>
    /\ characters = [c \in CharacterIds |->
           [position |-> Some(IF c = "c1" THEN [x |-> 5, y |-> 0, z |-> 0]
                                          ELSE [x |-> -5, y |-> 0, z |-> 0]),
            current_hit_points |-> SeedHitPoints,
            maximum_hit_points |-> SeedHitPoints,
            modified_at |-> 0]]
    /\ procs = [p \in Procs |-> IdleProc]
    /\ requests = 0
    /\ interaction_ids = 0

NextEncounter ==
    \/ Tick
    \/ \E p \in Procs, ids \in RosterInputs : CreateFetchCurrent(p, ids)
    \/ \E p \in Procs : CreateFetchCharacters(p)
    \/ \E p \in Procs : CreateInsert(p)
    \/ \E p \in Procs : FinishFetchCurrent(p)
    \/ \E p \in Procs : FinishUpdate(p)
    \/ \E p \in Procs : BeginFetchCurrent(p)
    \/ \E p \in Procs : BeginFetchOperations(p)
    \/ \E p \in Procs : BeginUpdate(p)
    \/ \E p \in Procs, c \in CharacterIds : RollFetchEncounter(p, c)
    \/ \E p \in Procs : RollFetchOperations(p)
    \/ \E p \in Procs, die \in DieFaces : RollInsert(p, die)

SpecEncounter == Init /\ [][NextEncounter]_vars

\* ------------------------------------------------------------------------
\* Specification: rolling and beginning
\* ------------------------------------------------------------------------
\* the seeded state after c2 rolled 1; the clients' requests are counted
\* from here
InitRolled ==
    /\ now = 0
    /\ campaigns = SeedCampaigns
    /\ encounters = <<[created_at |-> 0, modified_at |-> 0,
                       character_ids |-> <<"c1", "c2">>, state |-> Initiative]>>
    /\ operations = <<[present |-> TRUE, encounter_id |-> 1,
                       encounter_state |-> Initiative, character_id |-> "c2",
                       created_at |-> 0, modified_at |-> 0,
                       operation_type |-> [type |-> "Roll", roll |-> "Initiative",
                                           result |-> 1],
                       interactions |-> <<>>, legality |-> Legal]>>
    /\ characters = [c \in CharacterIds |->
           [position |-> Some(IF c = "c1" THEN Point(5, 0, 0) ELSE Point(-5, 0, 0)),
            current_hit_points |-> SeedHitPoints,
            maximum_hit_points |-> SeedHitPoints,
            modified_at |-> 0]]
    /\ procs = [p \in Procs |-> IdleProc]
    /\ requests = 0
    /\ interaction_ids = 0

NextBegin ==
    \/ Tick
    \/ \E p \in Procs : FinishFetchCurrent(p)
    \/ \E p \in Procs : FinishUpdate(p)
    \/ \E p \in Procs : BeginFetchCurrent(p)
    \/ \E p \in Procs : BeginFetchOperations(p)
    \/ \E p \in Procs : BeginUpdate(p)
    \/ \E p \in Procs, c \in CharacterIds : RollFetchEncounter(p, c)
    \/ \E p \in Procs : RollFetchOperations(p)
    \/ \E p \in Procs, die \in DieFaces : RollInsert(p, die)

SpecBegin == InitRolled /\ [][NextBegin]_vars

\* ------------------------------------------------------------------------
\* Specification: a turn
\* ------------------------------------------------------------------------
RollOperation(character_id, result) ==
    [present |-> TRUE, encounter_id |-> 1, encounter_state |-> Initiative,
     character_id |-> character_id, created_at |-> 0, modified_at |-> 0,
     operation_type |-> [type |-> "Roll", roll |-> "Initiative", result |-> result],
     interactions |-> <<>>, legality |-> Legal]

\* the seeded state after c1 rolled 20, c2 rolled 1 and begin succeeded
InitTurn ==
    /\ now = 0
    /\ campaigns = SeedCampaigns
    /\ encounters = <<[created_at |-> 0, modified_at |-> 0,
                       character_ids |-> <<"c1", "c2">>, state |-> Turn(0, "c1")]>>
    /\ operations = <<RollOperation("c1", 20), RollOperation("c2", 1)>>
    /\ characters = [c \in CharacterIds |->
           [position |-> Some(IF c = "c1" THEN Point(5, 0, 0) ELSE Point(-5, 0, 0)),
            current_hit_points |-> SeedHitPoints,
            maximum_hit_points |-> SeedHitPoints,
            modified_at |-> 0]]
    /\ procs = [p \in Procs |-> IdleProc]
    /\ requests = MaxRequests - MaxTurnRequests
    /\ interaction_ids = 0

NextTurn ==
    \/ Tick
    \/ \E p \in Procs, c \in CharacterIds, position \in MovePositions,
          ignore_violations \in BOOLEAN :
          MoveFetchEncounter(p, c, position, ignore_violations)
    \/ \E p \in Procs : MoveFetchCharacter(p)
    \/ \E p \in Procs : MoveFetchOperations(p)
    \/ \E p \in Procs : MoveInsert(p)
    \/ \E p \in Procs : MoveUpdatePosition(p)
    \/ \E p \in Procs, attack \in AttackInputs, ignore_violations \in BOOLEAN :
          ActionFetchEncounter(p, attack.character_id, attack.target_character_id,
                               ignore_violations)
    \/ \E p \in Procs : ActionFetchCharacter(p)
    \/ \E p \in Procs : ActionFetchTarget(p)
    \/ \E p \in Procs : ActionInsert(p)

SpecTurn == InitTurn /\ [][NextTurn]_vars

\* ------------------------------------------------------------------------
\* Specification: a turn with characters that were never placed
\* ------------------------------------------------------------------------
\* the first turn of the seeded encounter; a character made through the
\* character endpoint has no position, a seeded one has
InitUnplaced ==
    /\ now = 0
    /\ campaigns = SeedCampaigns
    /\ encounters = <<[created_at |-> 0, modified_at |-> 0,
                       character_ids |-> <<"c1", "c2">>, state |-> Turn(0, "c1")]>>
    /\ operations = <<RollOperation("c1", 20), RollOperation("c2", 1)>>
    /\ \E placed \in SUBSET CharacterIds :
          characters = [c \in CharacterIds |->
             [position |-> IF c \notin placed THEN None
                           ELSE Some(IF c = "c1" THEN Point(5, 0, 0) ELSE Point(-5, 0, 0)),
              current_hit_points |-> SeedHitPoints,
              maximum_hit_points |-> SeedHitPoints,
              modified_at |-> 0]]
    /\ procs = [p \in Procs |-> IdleProc]
    /\ requests = MaxRequests - MaxTurnRequests
    /\ interaction_ids = 0

\* c1 steps and attacks, every request overriding the rules
NextUnplaced ==
    \/ Tick
    \/ \E p \in Procs, position \in MovePositions :
          MoveFetchEncounter(p, "c1", position, TRUE)
    \/ \E p \in Procs : MoveFetchCharacter(p)
    \/ \E p \in Procs : MoveFetchOperations(p)
    \/ \E p \in Procs : MoveInsert(p)
    \/ \E p \in Procs : MoveUpdatePosition(p)
    \/ \E p \in Procs, attack \in AttackInputs :
          ActionFetchEncounter(p, attack.character_id, attack.target_character_id, TRUE)
    \/ \E p \in Procs : ActionFetchCharacter(p)
    \/ \E p \in Procs : ActionFetchTarget(p)
    \/ \E p \in Procs : ActionInsert(p)

SpecUnplaced == InitUnplaced /\ [][NextUnplaced]_vars

\* the point c1 may step to while an action is resolved
StepPositions == {Point(0, 0, 0)}

\* ------------------------------------------------------------------------
\* Specification: casting
\* ------------------------------------------------------------------------
\* casts c1 may request: at 5, 20, 150 and 155 ft, at a creature, and of a
\* spell the book does not hold
CastInputs ==
    {[name |-> "Fireball", target |-> PositionTarget(Point(0, 0, 0)),
      ignore_violations |-> FALSE],
     [name |-> "Fireball", target |-> PositionTarget(Point(25, 0, 0)),
      ignore_violations |-> FALSE],
     [name |-> "Fireball", target |-> PositionTarget(Point(155, 0, 0)),
      ignore_violations |-> FALSE],
     [name |-> "Fireball", target |-> PositionTarget(Point(160, 0, 0)),
      ignore_violations |-> FALSE],
     [name |-> "Fireball", target |-> PositionTarget(Point(160, 0, 0)),
      ignore_violations |-> TRUE],
     [name |-> "Fireball", target |-> CreatureTarget("c2"),
      ignore_violations |-> TRUE],
     [name |-> "Fire Bolt", target |-> PositionTarget(Point(0, 0, 0)),
      ignore_violations |-> FALSE]}

NextCast ==
    \/ Tick
    \/ \E p \in Procs, cast \in CastInputs :
          CastFetchEncounter(p, "c1", cast.name, cast.target, cast.ignore_violations)
    \/ \E p \in Procs : CastFetchCharacter(p)
    \/ \E p \in Procs : CastInsert(p)

SpecCast == InitUnplaced /\ [][NextCast]_vars

\* ------------------------------------------------------------------------
\* Specification: a Fireball and its interactions
\* ------------------------------------------------------------------------
\* points a stored Fireball may be aimed at: 5 ft from both characters, and
\* 20 ft from c1
BlastPositions == {Point(0, 0, 0), Point(25, 0, 0)}

\* the operation c1's Fireball stores in the first turn
FireballOperation(position) ==
    [present |-> TRUE, encounter_id |-> 1, encounter_state |-> Turn(0, "c1"),
     character_id |-> "c1", created_at |-> 0, modified_at |-> 0,
     operation_type |-> [type |-> "Action", action_type |-> "CastSpell",
                         spell |-> "Fireball", target |-> PositionTarget(position)],
     interactions |-> <<Interaction(1, "c1", "Damage")>>,
     legality |-> Legal]

\* the Fireball is stored, its damage roll is pending; c2 is placed or was
\* never placed
InitFireball ==
    /\ now = 0
    /\ campaigns = SeedCampaigns
    /\ encounters = <<[created_at |-> 0, modified_at |-> 0,
                       character_ids |-> <<"c1", "c2">>, state |-> Turn(0, "c1")]>>
    /\ \E position \in BlastPositions :
          operations = <<RollOperation("c1", 20), RollOperation("c2", 1),
                         FireballOperation(position)>>
    /\ \E position \in {None, Some(Point(-5, 0, 0))} :
          characters = [c \in CharacterIds |->
             [position |-> IF c = "c1" THEN Some(Point(5, 0, 0)) ELSE position,
              current_hit_points |-> SeedHitPoints,
              maximum_hit_points |-> SeedHitPoints,
              modified_at |-> 0]]
    /\ procs = [p \in Procs |-> IdleProc]
    /\ requests = MaxRequests - MaxSpellRequests
    /\ interaction_ids = 1

\* the operation the Fireball is stored as
CastOperationId == 3

\* roll results a client may submit for the Fireball: an odd one below the
\* difficulty class, the difficulty class, and one above the hit points
SpellResultInputs == {5, 8, 12}

NextSpell ==
    \/ Tick
    \/ \E p \in Procs, interaction_id \in 1..interaction_ids,
          c \in CharacterIds, value \in SpellResultInputs :
          InteractionFetchEncounter(p, CastOperationId, interaction_id, c, value)
    \/ \E p \in Procs : InteractionFetchOperation(p)
    \/ \E p \in Procs : InteractionFetchMember(p)
    \/ \E p \in Procs : InteractionFetchSaver(p)
    \/ \E p \in Procs : InteractionUpdateHitPoints(p)
    \/ \E p \in Procs : InteractionUpdateResult(p)
    \/ \E p \in Procs : InteractionPush(p)
    \/ \E p \in Procs, position \in StepPositions :
          MoveFetchEncounter(p, "c1", position, TRUE)
    \/ \E p \in Procs : MoveFetchCharacter(p)
    \/ \E p \in Procs : MoveFetchOperations(p)
    \/ \E p \in Procs : MoveInsert(p)
    \/ \E p \in Procs : MoveUpdatePosition(p)

SpecSpell == InitFireball /\ [][NextSpell]_vars

\* ------------------------------------------------------------------------
\* Specification: an attack and its interactions
\* ------------------------------------------------------------------------
\* the violation of c1's unarmed attack on c2 from the seeded positions
SeedAttackViolations ==
    <<[type |-> "AttackNotInRange", request_character_id |-> "c1",
       target_character_id |-> "c2", attack_range |-> UnarmedRange,
       current_range |-> 10]>>

\* the operation c1's unarmed attack on c2 stores when sent with
\* ignore_violations in the first turn
AttackOperation(interactions) ==
    [present |-> TRUE, encounter_id |-> 1, encounter_state |-> Turn(0, "c1"),
     character_id |-> "c1", created_at |-> 0, modified_at |-> 0,
     operation_type |-> [type |-> "Action", action_type |-> "Attack",
                         method |-> "Unarmed", targets |-> <<"c2">>],
     interactions |-> interactions,
     legality |-> IllegalPending(SeedAttackViolations)]

\* the attack is stored, its roll to hit is pending
PendingHit ==
    /\ operations = <<RollOperation("c1", 20), RollOperation("c2", 1),
                      AttackOperation(<<Interaction(1, "c1", "Hit")>>)>>
    /\ interaction_ids = 1

\* the roll to hit was 12, the damage roll is pending
PendingDamage ==
    /\ operations = <<RollOperation("c1", 20), RollOperation("c2", 1),
                      AttackOperation(<<[Interaction(1, "c1", "Hit")
                                            EXCEPT !.result = Some(12)],
                                        Interaction(2, "c1", "Damage")>>)>>
    /\ interaction_ids = 2

InitAttack ==
    /\ now = 0
    /\ campaigns = SeedCampaigns
    /\ encounters = <<[created_at |-> 0, modified_at |-> 0,
                       character_ids |-> <<"c1", "c2">>, state |-> Turn(0, "c1")]>>
    /\ PendingHit \/ PendingDamage
    /\ characters = [c \in CharacterIds |->
           [position |-> Some(IF c = "c1" THEN Point(5, 0, 0) ELSE Point(-5, 0, 0)),
            current_hit_points |-> SeedHitPoints,
            maximum_hit_points |-> SeedHitPoints,
            modified_at |-> 0]]
    /\ procs = [p \in Procs |-> IdleProc]
    /\ requests = MaxRequests - MaxTurnRequests


\* the stored attack and its interactions, as the clients name them
AttackOperationId == 3
AttackInteractionIds == {1, 2}

NextInteraction ==
    \/ Tick
    \/ \E p \in Procs, interaction_id \in AttackInteractionIds,
          c \in CharacterIds, value \in ResultInputs :
          InteractionFetchEncounter(p, AttackOperationId, interaction_id, c, value)
    \/ \E p \in Procs : InteractionFetchOperation(p)
    \/ \E p \in Procs : InteractionFetchTarget(p)
    \/ \E p \in Procs : InteractionUpdateHitPoints(p)
    \/ \E p \in Procs : InteractionUpdateResult(p)
    \/ \E p \in Procs : InteractionPush(p)
    \/ \E p \in Procs : ApproveFetchEncounter(p, AttackOperationId)
    \/ \E p \in Procs : ApproveFetchOperation(p)
    \/ \E p \in Procs : ApproveUpdate(p)
    \/ \E p \in Procs : FinishFetchCurrent(p)
    \/ \E p \in Procs : FinishUpdate(p)
    \/ \E p \in Procs, position \in StepPositions :
          MoveFetchEncounter(p, "c1", position, TRUE)
    \/ \E p \in Procs : MoveFetchCharacter(p)
    \/ \E p \in Procs : MoveFetchOperations(p)
    \/ \E p \in Procs : MoveInsert(p)
    \/ \E p \in Procs : MoveUpdatePosition(p)

SpecInteraction == InitAttack /\ [][NextInteraction]_vars

\* ------------------------------------------------------------------------
\* Specification: the game master reviews operations
\* ------------------------------------------------------------------------
\* operations a review may name: c1's initiative roll, the attack, and the
\* operation stored next
ReviewOperationIds == {1, AttackOperationId, AttackOperationId + 1}

\* the point 35 feet from c1
FarPositions == {Point(40, 0, 0)}

NextReview ==
    \/ Tick
    \/ \E p \in Procs, operation_id \in ReviewOperationIds :
          ApproveFetchEncounter(p, operation_id)
    \/ \E p \in Procs : ApproveFetchOperation(p)
    \/ \E p \in Procs : ApproveUpdate(p)
    \/ \E p \in Procs, operation_id \in ReviewOperationIds :
          RejectFetchEncounter(p, operation_id)
    \/ \E p \in Procs : RejectFetchOperation(p)
    \/ \E p \in Procs : RejectDelete(p)
    \/ \E p \in Procs, interaction_id \in AttackInteractionIds,
          value \in ResultInputs :
          InteractionFetchEncounter(p, AttackOperationId, interaction_id, "c1", value)
    \/ \E p \in Procs : InteractionFetchOperation(p)
    \/ \E p \in Procs : InteractionFetchTarget(p)
    \/ \E p \in Procs : InteractionUpdateHitPoints(p)
    \/ \E p \in Procs : InteractionUpdateResult(p)
    \/ \E p \in Procs : InteractionPush(p)
    \/ \E p \in Procs, position \in FarPositions :
          MoveFetchEncounter(p, "c1", position, TRUE)
    \/ \E p \in Procs : MoveFetchCharacter(p)
    \/ \E p \in Procs : MoveFetchOperations(p)
    \/ \E p \in Procs : MoveInsert(p)
    \/ \E p \in Procs : MoveUpdatePosition(p)

SpecReview == InitAttack /\ [][NextReview]_vars

\* ------------------------------------------------------------------------
\* Specification: a player who retries after a conflict
\* ------------------------------------------------------------------------
\* the player's client and the game master's client
Player == "p1"
GameMaster == "p2"

\* the interaction is stored without a result
Pending(operation_id, interaction_id) ==
    LET operation == fetch_operation_by_id(operation_id)
    IN  /\ operation # None
        /\ \E i \in DOMAIN operation[1].interactions :
              /\ operation[1].interactions[i].id = interaction_id
              /\ operation[1].interactions[i].result = None

\* the player answers the interactions it sees pending and sends again what
\* met a conflict; the game master approves the pending attack
NextRetry ==
    \/ Tick
    \/ \E interaction_id \in AttackInteractionIds, value \in ResultInputs :
          /\ Pending(AttackOperationId, interaction_id)
          /\ InteractionFetchEncounter(Player, AttackOperationId, interaction_id,
                                       "c1", value)
    \/ InteractionRetry(Player)
    \/ \E p \in Procs : InteractionFetchOperation(p)
    \/ \E p \in Procs : InteractionFetchTarget(p)
    \/ \E p \in Procs : InteractionUpdateHitPoints(p)
    \/ \E p \in Procs : InteractionUpdateResult(p)
    \/ \E p \in Procs : InteractionPush(p)
    \/ ApproveFetchEncounter(GameMaster, AttackOperationId)
    \/ \E p \in Procs : ApproveFetchOperation(p)
    \/ \E p \in Procs : ApproveUpdate(p)

SpecRetry == InitAttack /\ [][NextRetry]_vars

\* ------------------------------------------------------------------------
\* Specification: a player who answers an attack to its end
\* ------------------------------------------------------------------------
\* the attack is stored with its roll to hit pending
InitAnswer ==
    /\ now = 0
    /\ campaigns = SeedCampaigns
    /\ encounters = <<[created_at |-> 0, modified_at |-> 0,
                       character_ids |-> <<"c1", "c2">>, state |-> Turn(0, "c1")]>>
    /\ PendingHit
    /\ characters = [c \in CharacterIds |->
           [position |-> Some(IF c = "c1" THEN Point(5, 0, 0) ELSE Point(-5, 0, 0)),
            current_hit_points |-> SeedHitPoints,
            maximum_hit_points |-> SeedHitPoints,
            modified_at |-> 0]]
    /\ procs = [p \in Procs |-> IdleProc]
    /\ requests = MaxRequests - MaxAnswerRequests

\* the player answers an interaction of c1 it sees pending, or sends again
\* what met a conflict
PlayerAnswers ==
    \/ \E interaction_id \in AttackInteractionIds \cup {3}, value \in ResultInputs :
          /\ Pending(AttackOperationId, interaction_id)
          /\ InteractionFetchEncounter(Player, AttackOperationId, interaction_id,
                                       "c1", value)
    \/ InteractionRetry(Player)

\* the game master approves the attack it sees pending
GameMasterApproves ==
    /\ IsPending(operations[AttackOperationId].legality)
    /\ ApproveFetchEncounter(GameMaster, AttackOperationId)

\* a request in flight in slot p takes its next step
HandlerStep(p) ==
    \/ InteractionFetchOperation(p)
    \/ InteractionFetchTarget(p)
    \/ InteractionUpdateHitPoints(p)
    \/ InteractionUpdateResult(p)
    \/ InteractionPush(p)
    \/ ApproveFetchOperation(p)
    \/ ApproveUpdate(p)

NextAnswer ==
    \/ Tick
    \/ PlayerAnswers
    \/ GameMasterApproves
    \/ \E p \in Procs : HandlerStep(p)

\* the server runs every request in flight to its return, and the player
\* keeps answering
SpecAnswer ==
    /\ InitAnswer
    /\ [][NextAnswer]_vars
    /\ \A p \in Procs : WF_vars(HandlerStep(p))
    /\ WF_vars(PlayerAnswers)

\* ------------------------------------------------------------------------
\* Specification: the turn holder walks, and the encounter may be finished
\* ------------------------------------------------------------------------
\* points c1 may walk to: 10 and 20 ft from where it stands, 10 ft apart
WalkPositions == {Point(15, 0, 0), Point(25, 0, 0)}

NextWalk ==
    \/ Tick
    \/ \E p \in Procs, position \in WalkPositions, ignore_violations \in BOOLEAN :
          MoveFetchEncounter(p, "c1", position, ignore_violations)
    \/ \E p \in Procs : MoveFetchCharacter(p)
    \/ \E p \in Procs : MoveFetchOperations(p)
    \/ \E p \in Procs : MoveInsert(p)
    \/ \E p \in Procs : MoveUpdatePosition(p)
    \/ \E p \in Procs : FinishFetchCurrent(p)
    \/ \E p \in Procs : FinishUpdate(p)

SpecWalk == InitTurn /\ [][NextWalk]_vars

\* ------------------------------------------------------------------------
\* Specification: roll results of either sign
\* ------------------------------------------------------------------------
\* results a client may submit: the body's result is an i32 and no handler
\* checks its sign
SignedResultInputs == {-4, 4, 12}

NextSigned ==
    \/ Tick
    \/ \E p \in Procs, interaction_id \in AttackInteractionIds,
          value \in SignedResultInputs :
          InteractionFetchEncounter(p, AttackOperationId, interaction_id, "c1", value)
    \/ \E p \in Procs : InteractionFetchOperation(p)
    \/ \E p \in Procs : InteractionFetchTarget(p)
    \/ \E p \in Procs : InteractionUpdateHitPoints(p)
    \/ \E p \in Procs : InteractionUpdateResult(p)
    \/ \E p \in Procs : InteractionPush(p)

SpecSigned == InitAttack /\ [][NextSigned]_vars

\* ------------------------------------------------------------------------
\* Specification: campaigns are created and looked up by id
\* ------------------------------------------------------------------------
NextCampaign ==
    \/ Tick
    \/ \E p \in Procs, name \in CampaignNames : CreateCampaign(p, name)
    \/ \E p \in Procs, campaign_id \in CampaignIds : GetCampaignById(p, campaign_id)

SpecCampaign == Init /\ [][NextCampaign]_vars

\* ------------------------------------------------------------------------
\* Properties of the encounter state machine
\* ------------------------------------------------------------------------
Active == {i \in DOMAIN encounters : encounters[i].state # Finished}

\* C1: at most one encounter of the campaign has a state other than
\* Finished, in every reachable state
AtMostOneActiveEncounter == Cardinality(Active) <= 1

\* the stored Initiative roll operations of encounter e
RollsOf(e) ==
    {i \in DOMAIN operations : /\ operations[i].present
                               /\ operations[i].encounter_id = e
                               /\ IsInitiativeRoll(operations[i])}

HasRolled(e, c) == \E i \in RollsOf(e) : operations[i].character_id = c

\* the roster ids of stored encounter e without a recorded roll, in roster order
Missing(e) == SelectSeq(encounters[e].character_ids, LAMBDA c : ~ HasRolled(e, c))

\* the request in slot p takes a step
Steps(p) == procs'[p] # procs[p]

\* C3: a begin request changes the encounter only if every roster character
\* has a recorded Initiative roll for it; when some are missing, begin fails
\* with CharactersHaveNotRolledInitiative carrying exactly the roster ids
\* without a roll and leaves the encounter as it was
BeginRequiresAllRolls ==
    [][\A p \in Procs :
          (Steps(p) /\ procs'[p].kind = "begin" /\ procs[p].pc # "idle"
                    /\ procs[p].pc # "done") =>
             LET e == procs[p].encounter[1].id IN
             /\ (encounters' # encounters => Missing(e) = <<>>)
             /\ (procs[p].pc = "begin_fetch_operations" /\ Missing(e) # <<>> =>
                    /\ procs'[p].pc = "done"
                    /\ procs'[p].result =
                           [Err("CharactersHaveNotRolledInitiative")
                               EXCEPT !.character_ids = Missing(e)]
                    /\ encounters' = encounters)
             /\ (Missing(e) # <<>> => encounters' = encounters)]_vars

\* C3 witness: c1 has rolled, c2 has not; begin failed naming c2 and the
\* encounter is still in Initiative with its roster
BeginRejectedWitness ==
    \E p \in Procs :
       /\ procs[p].kind = "begin" /\ procs[p].pc = "done"
       /\ procs[p].result.status = "CharactersHaveNotRolledInitiative"
       /\ procs[p].result.character_ids = <<"c2">>
       /\ HasRolled(1, "c1")
       /\ encounters[1].state = Initiative
       /\ encounters[1].character_ids = <<"c1", "c2">>

\* C4: an encounter in Turn state is in round 0, its turn holder is the first
\* of character_ids, and character_ids lists the characters of recorded
\* initiative rolls by descending result (each adjacent pair: earlier roll >=
\* later roll); no state has the Turn state without that order, the two being
\* written by one update
TurnOrderDescending ==
    \A e \in DOMAIN encounters :
       encounters[e].state.type = "Turn" =>
          LET ids == encounters[e].character_ids IN
          /\ ids # <<>>
          /\ encounters[e].state = Turn(0, ids[1])
          /\ \E f \in [DOMAIN ids -> RollsOf(e)] :
                /\ \A i, j \in DOMAIN ids : i # j => f[i] # f[j]
                /\ \A i \in DOMAIN ids : operations[f[i]].character_id = ids[i]
                /\ \A i \in DOMAIN ids :
                      i < Len(ids) =>
                         operations[f[i]].operation_type.result >=
                            operations[f[i + 1]].operation_type.result

\* C4 witness: c2 rolled higher than c1 and begin put c2 before c1
TurnOrderWitness ==
    /\ encounters[1].state = Turn(0, "c2")
    /\ encounters[1].character_ids = <<"c2", "c1">>
    /\ \E i, j \in RollsOf(1) :
          /\ operations[i].character_id = "c1" /\ operations[j].character_id = "c2"
          /\ operations[i].operation_type.result < operations[j].operation_type.result
    /\ \E p \in Procs : procs[p].kind = "begin" /\ procs[p].result.status = "Ok"

\* the outcomes of a request that got as far as its conditional write
Written == {"Ok", "ConcurrentModificationDetected"}

\* C5: two begin requests that fetched the same copy of an encounter still
\* in Initiative: exactly one succeeds and the other receives
\* ConcurrentModificationDetected
BeginExactlyOneSucceeds ==
    \A p, q \in Procs :
       (/\ p # q
        /\ procs[p].kind = "begin" /\ procs[p].pc = "done"
        /\ procs[q].kind = "begin" /\ procs[q].pc = "done"
        /\ procs[p].result.status \in Written
        /\ procs[q].result.status \in Written
        /\ procs[p].encounter = procs[q].encounter
        /\ procs[p].encounter[1].state = Initiative) =>
           {procs[p].result.status, procs[q].result.status} = Written

\* ------------------------------------------------------------------------
\* Properties of a turn
\* ------------------------------------------------------------------------
\* the violation list the movement check yields for the request in slot p,
\* from the stored operations of the turn
ComputedMoveViolations(p) ==
    LET pr == procs[p]
        encounter == pr.encounter[1]
        ops == fetch_operations_by_turn(encounter.id, encounter.state.round,
                                        encounter.state.character_id)
    IN  MoveViolations(pr.character_id, Stats(pr.character_id).speed,
                       AlreadyMovedFeet(ops, pr.character_id), pr.feet)

\* the violation list the range check yields for the request in slot p
ComputedAttackViolations(p) ==
    AttackViolations(procs[p].character[1],
                     CharacterCopy(procs[p].target_character_id), UnarmedRange)

StoresUnchanged ==
    /\ encounters' = encounters
    /\ operations' = operations
    /\ characters' = characters

\* C9: when a move or an action computes a non-empty violation list and
\* ignore_violations is false, the request fails with OperationViolatesRules
\* carrying the whole list; up to and including that step the request has
\* written no operation and changed no character, and a request that goes on
\* to its insert with an illegal operation had ignore_violations set
ViolationsAreFatal ==
    [][\A p \in Procs :
          Steps(p) =>
             LET pr == procs[p] IN
             /\ (pr.pc = "move_fetch_operations" /\ ~ pr.ignore_violations
                     /\ ComputedMoveViolations(p) # <<>> =>
                    /\ procs'[p].pc = "done"
                    /\ procs'[p].result =
                           [Err("OperationViolatesRules")
                               EXCEPT !.violations = ComputedMoveViolations(p)]
                    /\ StoresUnchanged)
             /\ (pr.pc = "action_fetch_target" /\ ~ pr.ignore_violations
                     /\ ComputedAttackViolations(p) # <<>> =>
                    /\ procs'[p].pc = "done"
                    /\ procs'[p].result =
                           [Err("OperationViolatesRules")
                               EXCEPT !.violations = ComputedAttackViolations(p)]
                    /\ StoresUnchanged)
             /\ (procs'[p].kind \in {"move", "action"}
                     /\ pr.pc \in {"idle", "done", "move_fetch_character",
                                   "move_fetch_operations", "action_fetch_character",
                                   "action_fetch_target"} =>
                    StoresUnchanged)
             /\ (procs'[p].pc \in {"move_insert", "action_insert"}
                     /\ procs'[p].operation[1].legality # Legal =>
                    pr.ignore_violations)]_vars

\* C9 witness: c1's move of 35 feet and c1's attack from 10 feet, both sent
\* without ignore_violations, failed with their violations; no operation was
\* added and both characters are where and as they were
ViolationsRejectedWitness ==
    \E p, q \in Procs :
       /\ procs[p].pc = "done" /\ procs[p].kind = "move"
       /\ procs[p].result =
              [Err("OperationViolatesRules") EXCEPT !.violations =
                  <<[type |-> "CharacterMovementExceeded", character_id |-> "c1",
                     maximum_movement |-> 30, current_movement |-> 0,
                     request_movement |-> 35]>>]
       /\ procs[q].pc = "done" /\ procs[q].kind = "action"
       /\ procs[q].result =
              [Err("OperationViolatesRules") EXCEPT !.violations =
                  <<[type |-> "AttackNotInRange", request_character_id |-> "c1",
                     target_character_id |-> "c2", attack_range |-> 5,
                     current_range |-> 10]>>]
       /\ Len(operations) = 2
       /\ characters["c1"].position = Some(Point(5, 0, 0))
       /\ characters["c2"].position = Some(Point(-5, 0, 0))
       /\ \A c \in CharacterIds : characters[c].current_hit_points = 10

\* C10: a move that passes the gate builds a Move operation to the requested
\* point whose legality is Legal exactly when the computed violation list is
\* empty and IllegalPending with that list otherwise; that operation is
\* what the insert stores; and when the request returns Ok the character's
\* position is the requested point and the stored operation is the one built
AcceptedMoveLegality ==
    [][\A p \in Procs :
          Steps(p) =>
             LET pr == procs[p] IN
             /\ (pr.pc = "move_fetch_operations" /\ procs'[p].pc = "move_insert" =>
                    LET built == procs'[p].operation[1]
                        violations == ComputedMoveViolations(p)
                    IN  /\ built.operation_type.type = "Move"
                        /\ built.operation_type.to_position = pr.position[1]
                        /\ (violations = <<>> => built.legality = Legal)
                        /\ (violations # <<>> =>
                               built.legality = IllegalPending(violations)))
             /\ (pr.pc = "move_insert" =>
                    operations' = Append(operations, pr.operation[1]))
             /\ (pr.pc = "move_update_position" /\ procs'[p].result = Ok =>
                    /\ characters'[pr.character_id].position = pr.position
                    /\ operations'[pr.operation_id] = pr.operation[1])]_vars

\* C10 witness: c1's move of 35 feet sent with ignore_violations returned
\* Ok, its operation is stored IllegalPending with the movement violation,
\* and c1 stands at the requested point
IllegalPendingMoveWitness ==
    /\ \E p \in Procs :
          procs[p].pc = "done" /\ procs[p].kind = "move" /\ procs[p].result = Ok
    /\ \E i \in DOMAIN operations :
          /\ operations[i].operation_type.type = "Move"
          /\ operations[i].operation_type.to_position = Point(40, 0, 0)
          /\ operations[i].legality = IllegalPending(
                 <<[type |-> "CharacterMovementExceeded", character_id |-> "c1",
                    maximum_movement |-> 30, current_movement |-> 0,
                    request_movement |-> 35]>>)
    /\ characters["c1"].position = Some(Point(40, 0, 0))

\* ------------------------------------------------------------------------
\* Properties of the conditional writes
\* ------------------------------------------------------------------------
\* C2: a result recorded on an interaction is never changed by a later step
ResultWriteOnce ==
    [][\A i \in DOMAIN operations :
          \A j \in DOMAIN operations[i].interactions :
             operations[i].interactions[j].result # None =>
                operations'[i].interactions[j].result =
                   operations[i].interactions[j].result]_vars

EncounterWrites == {"finish_update", "begin_update"}
CharacterWrites == {"move_update_position", "interaction_update_hit_points"}
OperationWrites == {"interaction_update_result", "interaction_push", "approve_update"}

\* the request in slot p is about to issue a conditional write with a
\* modified_at that is not the one of the stored record
StaleCopy(p) ==
    LET pr == procs[p] IN
    \/ /\ pr.pc \in EncounterWrites
       /\ encounters[pr.encounter[1].id].modified_at # pr.encounter[1].modified_at
    \/ /\ pr.pc \in CharacterWrites
       /\ characters[pr.character[1].id].modified_at # pr.character[1].modified_at
    \/ /\ pr.pc \in OperationWrites
       /\ operations[pr.operation[1].id].modified_at # pr.operation[1].modified_at

\* the stored record differs from the copy the request in slot p read
ChangedSinceRead(p) ==
    LET pr == procs[p] IN
    \/ /\ pr.pc \in EncounterWrites
       /\ EncounterCopy(pr.encounter[1].id) # pr.encounter[1]
    \/ /\ pr.pc \in CharacterWrites
       /\ CharacterCopy(pr.character[1].id) # pr.character[1]
    \/ /\ pr.pc \in OperationWrites
       /\ OperationCopy(pr.operation[1].id) # pr.operation[1]

Conflict == Err("ConcurrentModificationDetected")

\* C6: a conditional write of any kind issued with a modified_at that does
\* not match the stored record returns ConcurrentModificationDetected and
\* changes no stored record
StaleWriteChangesNothing ==
    [][\A p \in Procs :
          StaleCopy(p) /\ Steps(p) =>
             /\ procs'[p].pc = "done"
             /\ procs'[p].result = Conflict
             /\ StoresUnchanged]_vars

\* C6 witness: two finish requests read the same copy, the clock advanced,
\* one finished the encounter and the other, on its stale copy, was refused
StaleFinishWitness ==
    \E p, q \in Procs :
       /\ procs[p].pc = "done" /\ procs[p].kind = "finish" /\ procs[p].result = Ok
       /\ procs[q].pc = "done" /\ procs[q].kind = "finish"
       /\ procs[q].result = Conflict
       /\ encounters[1].state = Finished

\* C7: a conditional write succeeds only if the stored record is the one
\* the writer read: when another writer changed the record after the read,
\* the write is refused
NoLostUpdate ==
    [][\A p \in Procs :
          ChangedSinceRead(p) /\ Steps(p) =>
             /\ procs'[p].pc = "done"
             /\ procs'[p].result = Conflict]_vars

\* C8: when a submission that met a conflict is sent again and returns Ok,
\* the state is that of one successful submission: a damage roll has been
\* taken from the target's seeded hit points once, and a roll to hit has
\* added one Damage interaction if it hits and none if it misses
RetryAppliesOnce ==
    [][\A p \in Procs :
          (/\ Steps(p)
           /\ procs[p].kind = "interaction" /\ procs[p].attempts >= 1
           /\ procs[p].pc \in OperationWrites
           /\ procs'[p].pc = "done" /\ procs'[p].result = Ok) =>
             LET pr == procs[p]
                 operation == operations'[pr.operation_id]
                 interaction == operation.interactions[pr.index]
                 target == operation.operation_type.targets[1]
                 damage_rolls == SelectSeq(operation.interactions,
                                           LAMBDA i : i.roll_type = "Damage")
             IN  /\ interaction.result = Some(pr.value)
                 /\ (interaction.roll_type = "Damage" =>
                        characters'[target].current_hit_points =
                           DamagedHitPoints(SeedHitPoints, pr.value))
                 /\ (interaction.roll_type = "Hit" =>
                        Len(damage_rolls) =
                           IF Hits(Stats(target).armor_class, pr.value)
                           THEN 1 ELSE 0)]_vars

\* ------------------------------------------------------------------------
\* Properties of the operation ledger
\* ------------------------------------------------------------------------
\* every stored Move or Action operation recorded under a turn was submitted
\* by the holder of that turn
ActedInOwnTurn ==
    \A i \in DOMAIN operations :
       (/\ operations[i].present
        /\ operations[i].operation_type.type \in {"Move", "Action"}
        /\ operations[i].encounter_state.type = "Turn") =>
          operations[i].character_id = operations[i].encounter_state.character_id

\* C11: a move or an action submitted against an encounter in Turn{round, c}
\* by a character of the encounter other than c fails with
\* NotThisPlayersTurn and writes nothing; every stored Move or Action
\* operation whose snapshot is a turn has the turn holder as acting character
OnlyTurnHolderActs ==
    [][/\ \A p \in Procs :
             (/\ Steps(p)
              /\ procs[p].pc \in {"move_fetch_character", "action_fetch_character"}
              /\ procs[p].encounter[1].state.type = "Turn"
              /\ procs[p].encounter[1].state.character_id # procs[p].character_id) =>
                /\ procs'[p].pc = "done"
                /\ procs'[p].result = Err("NotThisPlayersTurn")
                /\ StoresUnchanged
       /\ ActedInOwnTurn']_vars

\* C11 witness: in c1's turn a move and an attack of c2 were both refused,
\* c1 has moved, and the only operations added are c1's
NotTurnHolderWitness ==
    /\ \E p, q \in Procs :
          /\ procs[p].pc = "done" /\ procs[p].kind = "move"
          /\ procs[p].result = Err("NotThisPlayersTurn")
          /\ procs[q].pc = "done" /\ procs[q].kind = "action"
          /\ procs[q].result = Err("NotThisPlayersTurn")
    /\ encounters[1].state = Turn(0, "c1")
    /\ Len(operations) = 3
    /\ operations[3].operation_type.type = "Move"
    /\ operations[3].character_id = "c1"
    /\ characters["c2"].position = Some(Point(-5, 0, 0))

\* C12: for every encounter and character at most one Initiative roll
\* operation is stored, in every reachable state
AtMostOneInitiativeRoll ==
    \A e \in DOMAIN encounters, c \in CharacterIds :
       Cardinality({i \in RollsOf(e) : operations[i].character_id = c}) <= 1

\* the interaction the submission in slot p answers, on the copy it fetched
Answered(p) == procs[p].operation[1].interactions[procs[p].index]

\* the request in slot p is a submission of a result for an interaction of
\* the given roll type, at one of its writes to the operation
Submits(p, roll_type) ==
    /\ Steps(p)
    /\ procs[p].kind = "interaction"
    /\ procs[p].pc \in {"interaction_update_result", "interaction_push"}
    /\ Answered(p).roll_type = roll_type

\* C13: a submission of a Hit result r on an attack goes on to append
\* interactions exactly when r is at least the target's armor class; what it
\* appends is one Damage interaction of the character who rolled the hit,
\* without a result; below the armor class it returns without appending
HitSeedsDamage ==
    [][\A p \in Procs :
          Submits(p, "Hit") =>
             LET pr == procs[p]
                 id == pr.operation[1].id
                 armor_class ==
                     Stats(pr.operation[1].operation_type.targets[1]).armor_class
                 before == operations[id].interactions
                 after == operations'[id].interactions
             IN  /\ (pr.pc = "interaction_update_result" =>
                        /\ Len(after) = Len(before)
                        /\ (procs'[p].pc = "interaction_push" =>
                               pr.value >= armor_class)
                        /\ (procs'[p].pc = "done" /\ procs'[p].result = Ok =>
                               pr.value < armor_class))
                 /\ (pr.pc = "interaction_push" /\ procs'[p].result = Ok =>
                        /\ pr.value >= armor_class
                        /\ Len(after) = Len(before) + 1
                        /\ SubSeq(after, 1, Len(before)) = before
                        /\ after[Len(after)].roll_type = "Damage"
                        /\ after[Len(after)].character_id = Answered(p).character_id
                        /\ after[Len(after)].result = None)]_vars

\* C13 witness: c1's roll to hit of 12 against c2's armor class 12 was
\* accepted and the attack now carries one pending Damage interaction of c1
HitSeedsDamageWitness ==
    /\ \E p \in Procs :
          procs[p].pc = "done" /\ procs[p].kind = "interaction" /\ procs[p].result = Ok
    /\ Stats("c2").armor_class = 12
    /\ operations[AttackOperationId].interactions =
          <<[Interaction(1, "c1", "Hit") EXCEPT !.result = Some(12)],
            Interaction(2, "c1", "Damage")>>

\* C14: a submission of a Damage result d on an attack writes to the target
\* the hit points it read less d, or 0 when that is negative, and goes on
\* to record the result without appending an interaction; no character's
\* hit points are ever negative
DamageReducesHitPoints ==
    [][/\ \A p \in Procs :
             LET pr == procs[p] IN
             /\ (/\ Steps(p)
                 /\ pr.pc = "interaction_update_hit_points"
                 /\ procs'[p].pc = "interaction_update_result") =>
                    LET read == pr.character[1].current_hit_points
                    IN  /\ Answered(p).roll_type = "Damage"
                        /\ pr.character[1].id = pr.operation[1].operation_type.targets[1]
                        /\ characters'[pr.character[1].id].current_hit_points =
                               IF read - pr.value > 0 THEN read - pr.value ELSE 0
                        /\ operations' = operations
             /\ Submits(p, "Damage") =>
                    /\ pr.pc = "interaction_update_result"
                    /\ procs'[p].pc = "done"
                    /\ Len(operations'[pr.operation[1].id].interactions) =
                          Len(operations[pr.operation[1].id].interactions)
       /\ \A c \in CharacterIds : characters'[c].current_hit_points >= 0]_vars

\* C14 witness: damage 12 against c2's 10 hit points was accepted: c2 is at
\* 0 hit points and the attack still has its two interactions
DamageFlooredWitness ==
    /\ \E p \in Procs :
          procs[p].pc = "done" /\ procs[p].kind = "interaction" /\ procs[p].result = Ok
    /\ characters["c2"].current_hit_points = 0
    /\ Len(operations[AttackOperationId].interactions) = 2
    /\ operations[AttackOperationId].interactions[2].roll_type = "Damage"
    /\ operations[AttackOperationId].interactions[2].result = Some(12)

\* C15: a submission that has recorded its result and produced follow-up
\* interactions does not return leaving the operation without them
ResultAndFollowUpsTogether ==
    [][\A p \in Procs :
          (/\ Steps(p)
           /\ procs[p].kind = "interaction"
           /\ procs[p].pc = "interaction_push"
           /\ procs'[p].pc = "done") =>
             \A k \in DOMAIN procs[p].new_interactions :
                Contains(operations'[procs[p].operation[1].id].interactions,
                         procs[p].new_interactions[k])]_vars

\* C16: a submission naming an interaction id the operation does not have
\* fails with InteractionNotFound, one sent by a character other than the
\* interaction's fails with WrongCharacterForInteraction; in both cases no
\* operation and no character record changes, at that step or before it
SubmissionChecksInteraction ==
    [][\A p \in Procs :
          LET pr == procs[p]
              interactions == operations[pr.operation_id].interactions
              named == {i \in DOMAIN interactions :
                           interactions[i].id = pr.interaction_id}
          IN  /\ (Steps(p) /\ pr.pc \in {"idle", "done"}
                           /\ procs'[p].kind = "interaction" => StoresUnchanged)
              /\ (/\ Steps(p)
                  /\ pr.pc = "interaction_fetch_operation"
                  /\ operations[pr.operation_id].present) =>
                     /\ StoresUnchanged
                     /\ (named = {} =>
                            /\ procs'[p].pc = "done"
                            /\ procs'[p].result = Err("InteractionNotFound"))
                     /\ (/\ named # {}
                         /\ \A i \in named :
                               interactions[i].character_id # pr.character_id) =>
                            /\ procs'[p].pc = "done"
                            /\ procs'[p].result =
                                   Err("WrongCharacterForInteraction")]_vars

\* C16 witness: with only the roll to hit on the attack, a submission for
\* interaction 2 and a submission by c2 for interaction 1 were both refused;
\* the attack and both characters are as they were
SubmissionRefusedWitness ==
    /\ \E p, q \in Procs :
          /\ procs[p].pc = "done" /\ procs[p].kind = "interaction"
          /\ procs[p].result = Err("InteractionNotFound")
          /\ procs[q].pc = "done" /\ procs[q].kind = "interaction"
          /\ procs[q].result = Err("WrongCharacterForInteraction")
    /\ operations[AttackOperationId] = AttackOperation(<<Interaction(1, "c1", "Hit")>>)
    /\ \A c \in CharacterIds :
          /\ characters[c].current_hit_points = SeedHitPoints
          /\ characters[c].modified_at = 0

\* C17: an approve or a reject of an operation that the handler reads as
\* Legal or IllegalApproved fails with OperationIsNotPending and leaves that
\* operation, and every other record, as it was
ReviewRequiresPending ==
    [][\A p \in Procs :
          (/\ Steps(p)
           /\ procs[p].pc \in {"approve_fetch_operation", "reject_fetch_operation"}
           /\ fetch_operation_by_id(procs[p].operation_id) # None
           /\ operations[procs[p].operation_id].legality.type
                  \in {"Legal", "IllegalApproved"}) =>
             /\ procs'[p].pc = "done"
             /\ procs'[p].result = Err("OperationIsNotPending")
             /\ StoresUnchanged
             /\ operations'[procs[p].operation_id].present]_vars

\* C17 witness: the attack was approved; after that an approve and a reject
\* were refused, and the initiative rolls and the approved attack are stored
ReviewRefusedWitness ==
    /\ \E p, q \in Procs :
          /\ procs[p].pc = "done" /\ procs[p].kind = "approve"
          /\ procs[p].result = Err("OperationIsNotPending")
          /\ procs[q].pc = "done" /\ procs[q].kind = "reject"
          /\ procs[q].result = Err("OperationIsNotPending")
    /\ operations[AttackOperationId].legality = IllegalApproved(SeedAttackViolations)
    /\ operations[1].legality = Legal
    /\ \A i \in DOMAIN operations : operations[i].present

\* C18: the legality of a stored operation changes only from
\* IllegalPending{v} to IllegalApproved{v}, only at the write of an approve
\* of that operation, and that write changes no field of the operation other
\* than legality and modified_at; a Legal or IllegalApproved operation keeps
\* its legality
LegalityOnlyApproved ==
    [][\A i \in DOMAIN operations :
          operations'[i].legality # operations[i].legality =>
             /\ operations[i].legality.type = "IllegalPending"
             /\ operations'[i].legality =
                    IllegalApproved(operations[i].legality.violations)
             /\ \E p \in Procs :
                   /\ Steps(p)
                   /\ procs[p].kind = "approve"
                   /\ procs[p].pc = "approve_update"
                   /\ procs[p].operation_id = i
                   /\ procs'[p].result = Ok
             /\ [operations'[i] EXCEPT !.legality = operations[i].legality,
                                       !.modified_at = operations[i].modified_at]
                    = operations[i]]_vars

\* C18 witness: the clock advanced and the pending attack was approved: it
\* is IllegalApproved with its violation, stamped anew, and otherwise as it
\* was stored
ApprovedWitness ==
    /\ \E p \in Procs :
          procs[p].pc = "done" /\ procs[p].kind = "approve" /\ procs[p].result = Ok
    /\ operations[AttackOperationId] =
          [AttackOperation(<<Interaction(1, "c1", "Hit")>>)
              EXCEPT !.legality = IllegalApproved(SeedAttackViolations),
                     !.modified_at = 1]

\* C19: an operation leaves the store only at the delete of a reject, and
\* its stored legality at that moment is IllegalPending
DeletedOnlyWhilePending ==
    [][\A i \in DOMAIN operations :
          operations[i].present /\ ~ operations'[i].present =>
             /\ operations[i].legality.type = "IllegalPending"
             /\ \E p \in Procs :
                   /\ Steps(p)
                   /\ procs[p].kind = "reject"
                   /\ procs[p].pc = "reject_delete"]_vars

\* C20: a reject that finds the operation IllegalPending goes on to delete
\* it; the delete removes that operation record and nothing else: every
\* other operation, every character (position and hit points) and every
\* encounter is as it was
RejectDeletesOnlyOperation ==
    [][\A p \in Procs :
          LET pr == procs[p] IN
          /\ (/\ Steps(p)
              /\ pr.pc = "reject_fetch_operation"
              /\ fetch_operation_by_id(pr.operation_id) # None
              /\ operations[pr.operation_id].legality.type = "IllegalPending") =>
                 procs'[p].pc = "reject_delete" /\ StoresUnchanged
          /\ (Steps(p) /\ pr.pc = "reject_delete") =>
                 /\ procs'[p].result = Ok
                 /\ ~ operations'[pr.operation_id].present
                 /\ \A i \in DOMAIN operations :
                       i # pr.operation_id => operations'[i] = operations[i]
                 /\ characters' = characters
                 /\ encounters' = encounters]_vars

\* C20 witness: c1's move of 35 feet, stored IllegalPending, was rejected:
\* the Move operation is gone and c1 still stands where the move put it
RejectedMoveWitness ==
    /\ \E p \in Procs :
          procs[p].pc = "done" /\ procs[p].kind = "reject" /\ procs[p].result = Ok
    /\ Len(operations) = AttackOperationId + 1
    /\ operations[AttackOperationId + 1].operation_type.type = "Move"
    /\ operations[AttackOperationId + 1].legality.type = "IllegalPending"
    /\ ~ operations[AttackOperationId + 1].present
    /\ operations[AttackOperationId].present
    /\ characters["c1"].position = Some(Point(40, 0, 0))

\* ------------------------------------------------------------------------
\* Properties of the encounter life cycle
\* ------------------------------------------------------------------------
\* place of a state in the order Initiative, Turn, Finished
Phase(state) ==
    IF state.type = "Initiative" THEN 0 ELSE IF state.type = "Turn" THEN 1 ELSE 2

\* C21: every step leaves each stored encounter's state where it is or moves
\* it forward in the order Initiative, Turn, Finished; a Finished encounter
\* stays Finished
StateGoesForward ==
    [][\A e \in DOMAIN encounters :
          /\ Phase(encounters'[e].state) >= Phase(encounters[e].state)
          /\ (encounters[e].state = Finished => encounters'[e].state = Finished)]_vars

\* C22: once an encounter is in Turn state, a step changes its state or
\* its character_ids only if it is the write of a finish, which sets the
\* state to Finished and keeps character_ids
TurnChangedOnlyByFinish ==
    [][\A e \in DOMAIN encounters :
          (/\ encounters[e].state.type = "Turn"
           /\ \/ encounters'[e].state # encounters[e].state
              \/ encounters'[e].character_ids # encounters[e].character_ids) =>
             /\ encounters'[e].state = Finished
             /\ encounters'[e].character_ids = encounters[e].character_ids
             /\ \E p \in Procs : Steps(p) /\ procs[p].pc = "finish_update"]_vars

\* C23: in every reachable state the current-encounter lookup yields the
\* most recently created encounter whose state is not Finished, and yields
\* none only when every stored encounter is Finished
LookupNewestActive ==
    \A current \in fetch_current_encounter_by_campaign :
        IF Active = {} THEN current = None
        ELSE /\ current # None
             /\ current[1].id \in Active
             /\ \A j \in Active : encounters[j].created_at <= current[1].created_at

\* the request in slot p is a create and takes a step
CreateSteps(p) ==
    /\ Steps(p)
    /\ \/ Free(p) /\ procs'[p].kind = "create"
       \/ procs[p].pc \in {"create_fetch_characters", "create_insert"}

\* C24: a create whose lookup runs while a non-Finished encounter is stored
\* fails with CurrentEncounterAlreadyExists; one that requests a character
\* outside the campaign fails with CharacterNotInCampaign; a failed create
\* inserts nothing; a successful one inserts exactly one encounter, in
\* Initiative state with the requested character_ids
CreateChecksAndInserts ==
    [][\A p \in Procs :
          /\ (CreateSteps(p) /\ Free(p) /\ Active # {}) =>
                procs'[p].result = Err("CurrentEncounterAlreadyExists")
          /\ (CreateSteps(p) /\ procs[p].pc = "create_fetch_characters"
               /\ \E i \in DOMAIN procs[p].character_ids :
                     procs[p].character_ids[i] \notin CharacterIds) =>
                procs'[p].result = Err("CharacterNotInCampaign")
          /\ (CreateSteps(p) /\ procs'[p].result # Ok) => encounters' = encounters
          /\ (CreateSteps(p) /\ procs'[p].result = Ok) =>
                /\ Len(encounters') = Len(encounters) + 1
                /\ SubSeq(encounters', 1, Len(encounters)) = encounters
                /\ encounters'[Len(encounters')].state = Initiative
                /\ encounters'[Len(encounters')].character_ids = procs[p].character_ids]_vars

\* ------------------------------------------------------------------------
\* Properties of stored operations
\* ------------------------------------------------------------------------
\* C25: every step leaves the encounter_state of each stored operation as it
\* is, and an operation that a step inserts records the state of the
\* encounter copy its handler fetched
SnapshotKept ==
    [][/\ Len(operations') >= Len(operations)
       /\ \A i \in DOMAIN operations :
             operations'[i].encounter_state = operations[i].encounter_state
       /\ Len(operations') > Len(operations) =>
             /\ Len(operations') = Len(operations) + 1
             /\ \E p \in Procs :
                   /\ Steps(p)
                   /\ procs[p].encounter # None
                   /\ operations'[Len(operations')].encounter_state =
                         procs[p].encounter[1].state]_vars

\* the encounter is Finished and holds a move recorded under c1's turn
SnapshotWitness ==
    /\ encounters[1].state = Finished
    /\ \E i \in DOMAIN operations :
          /\ operations[i].present
          /\ operations[i].operation_type.type = "Move"
          /\ operations[i].encounter_state = Turn(0, "c1")

\* C26: every step leaves each stored operation's interactions list at least
\* as long as it was, with the id, character and roll type of every
\* interaction kept at its index, and leaves the operation's encounter,
\* snapshot, character, creation time and operation type as they were
InteractionsAppendOnly ==
    [][\A i \in DOMAIN operations :
          operations[i].present /\ operations'[i].present =>
             /\ Len(operations'[i].interactions) >= Len(operations[i].interactions)
             /\ \A k \in DOMAIN operations[i].interactions :
                   /\ operations'[i].interactions[k].id =
                         operations[i].interactions[k].id
                   /\ operations'[i].interactions[k].character_id =
                         operations[i].interactions[k].character_id
                   /\ operations'[i].interactions[k].roll_type =
                         operations[i].interactions[k].roll_type
             /\ operations'[i].encounter_id = operations[i].encounter_id
             /\ operations'[i].encounter_state = operations[i].encounter_state
             /\ operations'[i].character_id = operations[i].character_id
             /\ operations'[i].created_at = operations[i].created_at
             /\ operations'[i].operation_type = operations[i].operation_type]_vars

\* the attack was approved, its roll to hit answered, the damage roll
\* appended behind it and answered in turn
AppendedWitness ==
    /\ operations[AttackOperationId].legality = IllegalApproved(SeedAttackViolations)
    /\ operations[AttackOperationId].interactions =
          <<[Interaction(1, "c1", "Hit") EXCEPT !.result = Some(12)],
            [Interaction(2, "c1", "Damage") EXCEPT !.result = Some(4)]>>
    /\ interaction_ids = 2
    /\ characters["c2"].current_hit_points = SeedHitPoints - 4

\* ------------------------------------------------------------------------
\* Properties of the attack submit
\* ------------------------------------------------------------------------
\* the attack in slot p reaches the range check: target in the encounter,
\* both positions known
RangeChecked(p) ==
    /\ procs[p].pc = "action_fetch_target"
    /\ Steps(p)
    /\ Contains(procs[p].encounter[1].character_ids, procs[p].target_character_id)
    /\ procs[p].character[1].position # None
    /\ characters[procs[p].target_character_id].position # None

\* the violations the attack in slot p carries out of its range check
Carried(p) ==
    IF procs'[p].pc = "action_insert"
    THEN IF procs'[p].operation[1].legality.type = "Legal" THEN <<>>
         ELSE procs'[p].operation[1].legality.violations
    ELSE procs'[p].result.violations

MissingPositionIsFatal ==
    [][\A p \in Procs :
          (/\ procs[p].pc = "action_fetch_target"
           /\ Steps(p)
           /\ Contains(procs[p].encounter[1].character_ids, procs[p].target_character_id)
           /\ \/ procs[p].character[1].position = None
              \/ characters[procs[p].target_character_id].position = None) =>
             /\ procs'[p].pc = "done"
             /\ procs'[p].result = Err("CharacterDoesNotHavePosition")
             /\ operations' = operations]_vars

\* c1's overriding attack on the unplaced c2 was refused and no action is
\* stored
MissingPositionWitness ==
    /\ characters["c1"].position # None
    /\ characters["c2"].position = None
    /\ \E p \in Procs :
          /\ procs[p].pc = "done"
          /\ procs[p].kind = "action"
          /\ procs[p].result = Err("CharacterDoesNotHavePosition")
    /\ \A i \in DOMAIN operations : operations[i].operation_type.type # "Action"

\* ------------------------------------------------------------------------
\* Properties of the Fireball
\* ------------------------------------------------------------------------
\* the cast in slot p reaches the target check of Cast::submit: the caster
\* holds the turn, the spell is Fireball, the caster has a position
CastChecked(p) ==
    /\ procs[p].pc = "cast_fetch_character"
    /\ Steps(p)
    /\ Contains(procs[p].encounter[1].character_ids, procs[p].character_id)
    /\ procs[p].encounter[1].state.type = "Turn" =>
          procs[p].encounter[1].state.character_id = procs[p].character_id
    /\ procs[p].name = "Fireball"
    /\ characters[procs[p].character_id].position # None

\* the violations the cast in slot p carries out of its range check
CastCarried(p) ==
    IF procs'[p].pc = "cast_insert"
    THEN IF procs'[p].operation[1].legality.type = "Legal" THEN <<>>
         ELSE procs'[p].operation[1].legality.violations
    ELSE procs'[p].result.violations

\* C29: a Fireball of a caster with a position fails with
\* CastUsesWrongTargetType exactly when its target is not a Position; aimed
\* at a position it yields a CastNotInRange violation exactly when the
\* distance from the caster to that position exceeds 150 ft; a cast that
\* returns successfully has stored an operation with exactly one
\* interaction, a Damage roll of the caster without a result
FireballSubmit ==
    [][\A p \in Procs :
          /\ CastChecked(p) =>
                IF procs[p].target.type # "Position"
                THEN /\ procs'[p].pc = "done"
                     /\ procs'[p].result = Err("CastUsesWrongTargetType")
                ELSE LET d == Distance(characters[procs[p].character_id].position[1],
                                       procs[p].target.position)
                     IN  /\ procs'[p].result.status # "CastUsesWrongTargetType"
                         /\ d > 150 =>
                               /\ Len(CastCarried(p)) = 1
                               /\ CastCarried(p)[1].type = "CastNotInRange"
                               /\ CastCarried(p)[1].spell_range = 150
                               /\ CastCarried(p)[1].current_range = d
                         /\ d <= 150 =>
                               CastCarried(p) = <<>> /\ procs'[p].pc = "cast_insert"
          /\ (procs[p].pc = "cast_insert" /\ Steps(p)) =>
                /\ procs'[p].result = Ok
                /\ Len(operations') = Len(operations) + 1
                /\ LET interactions == operations'[Len(operations')].interactions
                   IN  /\ Len(interactions) = 1
                       /\ interactions[1].roll_type = "Damage"
                       /\ interactions[1].character_id = procs[p].character_id
                       /\ interactions[1].result = None]_vars

\* a Fireball aimed at a creature was refused, and one aimed 150 ft away is
\* stored as legal with its damage roll pending
FireballSubmitWitness ==
    /\ \E p \in Procs :
          /\ procs[p].pc = "done"
          /\ procs[p].kind = "cast"
          /\ procs[p].result = Err("CastUsesWrongTargetType")
    /\ \E i \in DOMAIN operations :
          /\ operations[i].operation_type.type = "Action"
          /\ operations[i].operation_type.action_type = "CastSpell"
          /\ operations[i].operation_type.target = PositionTarget(Point(155, 0, 0))
          /\ operations[i].legality = Legal
          /\ Len(operations[i].interactions) = 1
          /\ operations[i].interactions[1].roll_type = "Damage"
          /\ operations[i].interactions[1].character_id = "c1"
          /\ operations[i].interactions[1].result = None

\* the members the Damage submission in slot p fetched and found within
\* 20 ft of the point the Fireball is aimed at
Blasted(p) ==
    SelectSeq(procs[p].members,
              LAMBDA c : /\ c.position # None
                         /\ Distance(c.position[1],
                                     procs[p].operation[1].operation_type.target.position)
                               <= 20)

\* C30: a submission of the Damage result of a Fireball that returns
\* successfully has fetched every member of the encounter's character_ids
\* and appended, in their order, exactly one Dexterity Save interaction
\* without a result for each member fetched with a position within 20 ft of
\* the target point, the caster among them, and none for the others; no
\* step of a Damage submission changes a character's hit points
DamageSeedsSaves ==
    [][\A p \in Procs :
          (/\ Submits(p, "Damage")
           /\ procs[p].operation[1].operation_type.action_type = "CastSpell") =>
             LET pr == procs[p]
                 id == pr.operation[1].id
                 before == operations[id].interactions
                 after == operations'[id].interactions
             IN  /\ \A c \in CharacterIds :
                       characters'[c].current_hit_points = characters[c].current_hit_points
                 /\ Len(pr.members) = Len(pr.encounter[1].character_ids)
                 /\ \A k \in DOMAIN pr.members :
                       pr.members[k].id = pr.encounter[1].character_ids[k]
                 /\ (pr.pc = "interaction_update_result" =>
                        /\ Len(after) = Len(before)
                        /\ (procs'[p].pc = "interaction_push" => Blasted(p) # <<>>)
                        /\ (procs'[p].pc = "done" /\ procs'[p].result = Ok =>
                               Blasted(p) = <<>>))
                 /\ (pr.pc = "interaction_push" /\ procs'[p].result = Ok =>
                        /\ Len(after) = Len(before) + Len(Blasted(p))
                        /\ SubSeq(after, 1, Len(before)) = before
                        /\ \A k \in DOMAIN Blasted(p) :
                              /\ after[Len(before) + k].character_id = Blasted(p)[k].id
                              /\ after[Len(before) + k].roll_type = "DexteritySave"
                              /\ after[Len(before) + k].result = None)]_vars

\* c2 was never placed and c1 stands 20 ft from the target point: the
\* damage roll was answered and one saving throw, c1's own, is pending
CasterSavesWitness ==
    /\ characters["c2"].position = None
    /\ characters["c1"].position = Some(Point(5, 0, 0))
    /\ operations[CastOperationId].operation_type.target =
          PositionTarget(Point(25, 0, 0))
    /\ Len(operations[CastOperationId].interactions) = 2
    /\ operations[CastOperationId].interactions[1].result # None
    /\ operations[CastOperationId].interactions[2].roll_type = "DexteritySave"
    /\ operations[CastOperationId].interactions[2].character_id = "c1"
    /\ operations[CastOperationId].interactions[2].result = None
    /\ \A c \in CharacterIds : characters[c].current_hit_points = SeedHitPoints

\* the recorded result of the first Damage interaction on the copy of the
\* operation the submission in slot p fetched
RecordedDamage(p) ==
    LET rolls == SelectSeq(procs[p].operation[1].interactions,
                           LAMBDA i : i.roll_type = "Damage")
    IN  rolls[1].result[1]

\* C31: a submission of a Dexterity Save result s on a Fireball whose
\* recorded Damage result is d writes to the saving character the hit
\* points it read less d / 2 (rounded toward zero) when s >= 8 and less d
\* otherwise, or 0 when that is negative; it writes to no other character
\* and goes on to record the result without appending an interaction
SaveReducesHitPoints ==
    [][\A p \in Procs :
          (/\ Steps(p)
           /\ procs[p].kind = "interaction"
           /\ procs[p].pc \in {"interaction_update_hit_points",
                                "interaction_update_result", "interaction_push"}
           /\ Answered(p).roll_type = "DexteritySave") =>
             LET pr == procs[p]
                 saver == Answered(p).character_id
                 d == RecordedDamage(p)
                 half == IF d >= 0 THEN d \div 2 ELSE 0 - ((0 - d) \div 2)
                 damage == IF pr.value >= 8 THEN half ELSE d
                 left == pr.character[1].current_hit_points - damage
             IN  /\ pr.pc # "interaction_push"
                 /\ pr.character[1].id = saver
                 /\ pr.new_interactions = <<>>
                 /\ operations'[pr.operation[1].id].interactions
                       = [k \in DOMAIN operations[pr.operation[1].id].interactions |->
                            IF k = pr.index /\ procs'[p].result = Ok
                            THEN [operations[pr.operation[1].id].interactions[k]
                                     EXCEPT !.result = Some(pr.value)]
                            ELSE operations[pr.operation[1].id].interactions[k]]
                 /\ (pr.pc = "interaction_update_hit_points" =>
                        /\ \A c \in CharacterIds \ {saver} :
                              characters'[c] = characters[c]
                        /\ (procs'[p].pc = "interaction_update_result" =>
                               characters'[saver].current_hit_points =
                                  IF left > 0 THEN left ELSE 0)
                        /\ (procs'[p].pc = "done" => characters' = characters))
                 /\ (pr.pc = "interaction_update_result" =>
                        characters' = characters)]_vars

\* the damage roll was 5 and c1 made its saving throw with 8: one
\* interaction was appended by the damage roll, none by the throw, and c1
\* lost 2 hit points
SavedWitness ==
    /\ Len(operations[CastOperationId].interactions) >= 2
    /\ operations[CastOperationId].interactions[1].result = Some(5)
    /\ operations[CastOperationId].interactions[2].roll_type = "DexteritySave"
    /\ operations[CastOperationId].interactions[2].character_id = "c1"
    /\ operations[CastOperationId].interactions[2].result = Some(8)
    /\ characters["c1"].current_hit_points = SeedHitPoints - 2
    /\ \E p \in Procs :
          procs[p].pc = "done" /\ procs[p].kind = "interaction" /\ procs[p].result = Ok

\* ------------------------------------------------------------------------
\* Properties of the interaction cycle
\* ------------------------------------------------------------------------
\* no interaction of the attack lacks a result
Resolved ==
    \A i \in DOMAIN operations[AttackOperationId].interactions :
       operations[AttackOperationId].interactions[i].result # None

\* C32: when the server runs every request to its return and the player
\* keeps answering the interactions of c1 that lack a result, sending again
\* what met a conflict, the attack reaches a state from which on none of its
\* interactions lacks a result
CycleEnds == <>[]Resolved

\* the game master approved the attack while the player answered it, and
\* both rolls are recorded
CycleEndsWitness ==
    /\ operations[AttackOperationId].legality.type = "IllegalApproved"
    /\ Len(operations[AttackOperationId].interactions) = 2
    /\ Resolved
    /\ procs[Player].pc = "done" /\ procs[Player].result = Ok
    /\ procs[GameMaster].pc = "done" /\ procs[GameMaster].result = Ok
    /\ requests > MaxRequests - MaxAnswerRequests + 3

\* C33: get_campaign_by_id answers with the campaign the store holds under
\* the id it was given, and with CampaignDoesNotExist carrying that id when
\* the store holds no campaign under it.
CampaignLookup ==
    [][\A p \in Procs :
          (procs'[p] # procs[p] /\ procs'[p].kind = "get_campaign") =>
             LET result == procs'[p].result
                 campaign_id == procs'[p].campaign_id
                 held == {i \in DOMAIN campaigns : campaigns[i].id = campaign_id}
             IN  /\ campaign_id \in CampaignIds
                 /\ IF held # {}
                    THEN /\ result.status = "Ok"
                         /\ \E i \in held : result.campaign = Some(campaigns[i])
                    ELSE /\ result.status = "CampaignDoesNotExist"
                         /\ result.campaign = None
                         /\ result.campaign_id = campaign_id]_vars

\* a created campaign was found by its id, and an id the store does not hold
\* was answered with the error
CampaignLookupWitness ==
    /\ Len(campaigns) = 2
    /\ procs["p1"].kind = "get_campaign"
    /\ procs["p1"].result.status = "Ok"
    /\ procs["p1"].campaign_id = campaigns[2].id
    /\ procs["p1"].result.campaign = Some(campaigns[2])
    /\ procs["p2"].kind = "get_campaign"
    /\ procs["p2"].result.status = "CampaignDoesNotExist"
    /\ procs["p2"].result.campaign_id = procs["p2"].campaign_id
    /\ procs["p2"].campaign_id \notin {campaigns[i].id : i \in DOMAIN campaigns}

\* feet of the stored Legal Move operations of a character recorded under
\* one turn of the seeded encounter
LegalFeet(character_id, state) ==
    LET legal == SelectSeq(operations,
                    LAMBDA o : /\ o.present
                               /\ o.encounter_id = 1
                               /\ o.encounter_state = state
                               /\ o.character_id = character_id
                               /\ o.operation_type.type = "Move"
                               /\ o.legality = Legal)
        sum[i \in 0..Len(legal)] ==
            IF i = 0 THEN 0 ELSE sum[i - 1] + legal[i].operation_type.feet
    IN  sum[Len(legal)]

\* C34: the movement check of a turn yields CharacterMovementExceeded with
\* the speed, the feet already moved and the feet requested exactly when the
\* feet of the character's stored Move operations of that turn plus the
\* requested feet exceed the speed; and within one turn the feet of a
\* character's Legal Move operations never sum to more than its speed
MovementWithinSpeed ==
    [][/\ \A p \in Procs :
             Steps(p) /\ procs[p].pc = "move_fetch_operations" =>
                LET pr == procs[p]
                    state == pr.encounter[1].state
                    already_moved ==
                        AlreadyMovedFeet(
                            fetch_operations_by_turn(pr.encounter[1].id, state.round,
                                                     state.character_id),
                            pr.character_id)
                    speed == Stats(pr.character_id).speed
                    exceeded == <<[type |-> "CharacterMovementExceeded",
                                   character_id |-> pr.character_id,
                                   maximum_movement |-> speed,
                                   current_movement |-> already_moved,
                                   request_movement |-> pr.feet]>>
                    emitted == IF procs'[p].pc = "move_insert"
                               THEN IF procs'[p].operation[1].legality = Legal
                                    THEN <<>>
                                    ELSE procs'[p].operation[1].legality.violations
                               ELSE procs'[p].result.violations
                IN  emitted = IF already_moved + pr.feet > speed THEN exceeded ELSE <<>>
       /\ \A c \in CharacterIds :
             LegalFeet(c, encounters'[1].state) <= Stats(c).speed]_vars

\* the number of places of a sequence that hold x
Occurrences(s, x) == Cardinality({i \in DOMAIN s : s[i] = x})

\* C35: a begin that succeeds on an encounter in Initiative state writes as
\* character_ids a permutation of the roster the encounter held: every
\* character holds as many places of the turn order as of the roster
TurnOrderIsRoster ==
    [][\A p \in Procs :
          (/\ Steps(p)
           /\ procs[p].pc = "begin_update"
           /\ procs'[p].result.status = "Ok"
           /\ encounters[procs[p].encounter[1].id].state = Initiative) =>
             LET e == procs[p].encounter[1].id
             IN  /\ Len(encounters'[e].character_ids) = Len(encounters[e].character_ids)
                 /\ \A c \in CharacterIds \cup Range(encounters'[e].character_ids) :
                       Occurrences(encounters'[e].character_ids, c)
                          = Occurrences(encounters[e].character_ids, c)]_vars

\* C36: when a move returns an error, the conflict of the position write
\* included, the ledger holds no Move operation of that call: an error before
\* the insert leaves the ledger as it was, and after an error of the position
\* write the operation the call inserted is not stored
FailedMoveLeavesNothing ==
    [][\A p \in Procs :
          (/\ Steps(p)
           /\ procs'[p].kind = "move"
           /\ procs'[p].pc = "done"
           /\ procs'[p].result.status # "Ok") =>
             /\ procs[p].pc # "move_update_position" => operations' = operations
             /\ procs[p].pc = "move_update_position" =>
                   \/ procs[p].operation_id \notin DOMAIN operations'
                   \/ ~ operations'[procs[p].operation_id].present]_vars

\* C37: an operation enters the ledger only with a snapshot equal to the
\* state its encounter holds in the store at the moment of the insert; so
\* none is inserted for an encounter already Finished
InsertedInStoredState ==
    [][Len(operations') > Len(operations) =>
          LET inserted == operations'[Len(operations')]
          IN  /\ inserted.encounter_state = encounters[inserted.encounter_id].state
              /\ encounters[inserted.encounter_id].state # Finished]_vars

\* C38: in every reachable state a Fireball operation that holds a Dexterity
\* Save interaction holds a Damage interaction, and the first of them has
\* its result recorded; no submission returns ExistentialState
SaveFollowsDamage ==
    /\ \A i \in DOMAIN operations :
          LET interactions == operations[i].interactions
              damage_rolls == SelectSeq(interactions, LAMBDA r : r.roll_type = "Damage")
          IN  (/\ operations[i].operation_type.type = "Action"
               /\ operations[i].operation_type.action_type = "CastSpell"
               /\ \E j \in DOMAIN interactions :
                     interactions[j].roll_type = "DexteritySave") =>
                 /\ damage_rolls # <<>>
                 /\ damage_rolls[1].result # None
    /\ \A p \in Procs : procs[p].result.status # "ExistentialState"

\* c2, caught in the blast, made its saving throw and the throw is recorded
\* next to the recorded Damage roll
SaveRecordedWitness ==
    LET interactions == operations[CastOperationId].interactions
    IN  /\ \E j \in DOMAIN interactions :
              /\ interactions[j].roll_type = "DexteritySave"
              /\ interactions[j].character_id = "c2"
              /\ interactions[j].result = Some(12)
        /\ interactions[1].roll_type = "Damage"
        /\ interactions[1].result # None
        /\ \E p \in Procs : procs[p].pc = "done" /\ procs[p].result = Ok

\* the number of interactions of a roll type an operation holds for a
\* character
Rolls(operation, roll_type, character_id) ==
    Cardinality({j \in DOMAIN operation.interactions :
                    /\ operation.interactions[j].roll_type = roll_type
                    /\ operation.interactions[j].character_id = character_id})

\* C39: in every reachable state an attack holds at most one Hit and at most
\* one Damage interaction, and a Fireball at most one Damage interaction and
\* at most one Dexterity Save interaction for each character
InteractionChainBounded ==
    \A i \in DOMAIN operations :
       LET operation == operations[i]
           rollers == {operation.interactions[j].character_id :
                          j \in DOMAIN operation.interactions}
       IN  operation.operation_type.type = "Action" =>
              /\ \A roll_type \in {"Hit", "Damage"} :
                    Cardinality({j \in DOMAIN operation.interactions :
                                    operation.interactions[j].roll_type = roll_type}) <= 1
              /\ \A c \in rollers : Rolls(operation, "DexteritySave", c) <= 1

\* C40: whatever integers are submitted as results, negative ones included,
\* every character's current hit points stay within 0 and its maximum, and
\* no step raises them
HitPointsWithinBounds ==
    [][\A c \in CharacterIds :
          /\ characters'[c].current_hit_points >= 0
          /\ characters'[c].current_hit_points <= characters'[c].maximum_hit_points
          /\ characters'[c].current_hit_points <= characters[c].current_hit_points]_vars


====
